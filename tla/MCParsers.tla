------------------------------ MODULE MCParsers ------------------------------
(* Instances of Parsers for TLC. *)
EXTENDS Parsers

\* The first items of the second source have files.
SecondFiled == {<<2, 1>>, <<2, 2>>}

\* The first source begins with an item the intake refuses and ends with one that
\* cannot be converted.
FirstInvalid == {<<1, 1>>}
LastBroken == {<<1, 3>>}

=============================================================================
