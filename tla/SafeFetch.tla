------------------------------ MODULE SafeFetch ------------------------------
(***************************************************************************)
(* SafeFetcher.stream_to(): what a URL brings, through a bounded number of  *)
(* redirects, each of which is validated before it is followed, and within  *)
(* a bounded size, whether the answer declares it or not.                   *)
(***************************************************************************)
EXTENDS Integers, Sequences

CONSTANTS Urls, MaxRedirects, MaxBytes, Undeclared

ASSUME SafeFetchAssumption ==
  MaxRedirects \in Nat /\ MaxBytes \in Nat \ {0} /\ Undeclared \notin Int

\* A web says of each URL whether it may be requested (_validated_target), and
\* what answers there: [valid, kind |-> "redirect", to] with a URL or none,
\* [valid, kind |-> "body", declared, chunks] or [valid, kind |-> "error"].

\* _limit() of a limit that was asked for.
Limit(asked) == IF asked < MaxBytes THEN asked ELSE MaxBytes

\* What happened: the URLs requested, the bytes passed on, and whether it ended well.
Outcome(ok, requested, bytes) == [ok |-> ok, requested |-> requested, bytes |-> bytes]

\* _stream_bounded(): chunks are passed on until one goes beyond the limit.
Passed(chunks, limit) ==
  LET total[n \in 0 .. Len(chunks)] == IF n = 0 THEN 0 ELSE total[n - 1] + chunks[n]
      fits == {n \in 0 .. Len(chunks) : total[n] <= limit} IN
  [all |-> Len(chunks) \in fits, bytes |-> total[CHOOSE n \in fits : \A m \in fits : m <= n]]

\* Mutant: one redirect too many is followed.
OneMore(hop) == hop > MaxRedirects

TooMany(hop) == hop >= MaxRedirects

\* A hop to a URL, if rest says what each URL brings at the next hop.
Hop(web, hop, at, rest, limit) ==
  LET page == web[at] IN
  IF ~page.valid THEN Outcome(FALSE, <<>>, 0)
  ELSE CASE page.kind = "error" -> Outcome(FALSE, <<at>>, 0)
         [] page.kind = "redirect" ->
              IF TooMany(hop) \/ page.to \notin Urls THEN Outcome(FALSE, <<at>>, 0)
              ELSE [rest[page.to] EXCEPT !.requested = <<at>> \o @]
         [] page.kind = "body" ->
              IF page.declared # Undeclared /\ (page.declared < 0 \/ page.declared > limit)
              THEN Outcome(FALSE, <<at>>, 0)
              ELSE LET passed == Passed(page.chunks, limit) IN
                   Outcome(passed.all, <<at>>, passed.bytes)

Fetched(web, url, asked) ==
  LET From[hop \in 0 .. MaxRedirects + 1] ==
        [at \in Urls |-> Hop(web, hop, at, From[hop + 1], Limit(asked))] IN
  From[0][url]

-----------------------------------------------------------------------------
\* The URLs that redirects lead to from some.
Onward(web, urls) == {web[u].to : u \in {v \in urls : web[v].kind = "redirect"}} \cap Urls

\* The URL a chain of n redirects leads to, or none.
Target(web, url) ==
  LET After[n \in 0 .. MaxRedirects] ==
        IF n = 0 THEN {url} ELSE Onward(web, After[n - 1]) IN
  After

\* A fetch ends well exactly when at most MaxRedirects redirects lead to a body
\* that fits and all on the way may be requested.
Reaches(web, url, limit) ==
  \E n \in 0 .. MaxRedirects : \E u \in Target(web, url)[n] :
    /\ \A k \in 0 .. n : \A v \in Target(web, url)[k] : web[v].valid
    /\ web[u].kind = "body" /\ Passed(web[u].chunks, limit).all
    /\ web[u].declared = Undeclared \/ web[u].declared \in 0 .. limit

\* Over every web: fetches end well when they should, never request what may
\* not be requested or more than MaxRedirects + 1 times, and never pass on more
\* than the limit.
FetchKeepsLimits(webs, limits) ==
  \A web \in webs, url \in Urls, asked \in limits :
    LET result == Fetched(web, url, asked)  limit == Limit(asked) IN
    /\ result.ok <=> Reaches(web, url, limit)
    /\ \A i \in DOMAIN result.requested : web[result.requested[i]].valid
    /\ Len(result.requested) <= MaxRedirects + 1
    /\ result.bytes <= limit
=============================================================================
