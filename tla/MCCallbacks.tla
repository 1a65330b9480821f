----------------------------- MODULE MCCallbacks -----------------------------
(* A small instance of Callbacks.  The threads are interchangeable.          *)
EXTENDS Callbacks, TLC

Symmetry == Permutations(Thread)

\* The lists, one or two short names each; "\\" is a single backslash.
Prefixes == {<<"\\", "L">>, <<"\\", "B", "C", "D">>, <<"\\", "X", "\\", "S">>}
Link     == <<"\\", "X">>
Target   == <<"\\", "Y">>
Suffixes == {<<"\\", "L", "\\">>}
Blocked  == {<<"C", "D">>}
Images   == {<<"S">>}
Patterns == {[head |-> <<"C">>, tail |-> <<"S">>]}

\* Names on either side of the comparisons: a key below a protected one, and one
\* behind the link; a file with the protected stretch at its end, and one that is
\* too short for it; images in a path with either separator, and two that are longer
\* than the blocked name, of which one fits a pattern.
Req(via, mutating, named, target) ==
    [via |-> via, mutating |-> mutating, named |-> named, target |-> target]

MCRequests ==
    { Req("registry", TRUE,  TRUE,  <<"\\", "L", "\\", "S">>),
      Req("registry", TRUE,  TRUE,  <<"\\", "X", "\\", "S">>),
      Req("registry", FALSE, TRUE,  <<"\\", "L">>),
      Req("file",     TRUE,  TRUE,  <<"\\", "C", "\\", "L", "\\">>),
      Req("file",     TRUE,  TRUE,  <<"\\", "C", "\\", "L">>),
      Req("process",  TRUE,  TRUE,  <<"\\", "L", "/", "C", "D">>),
      Req("process",  TRUE,  TRUE,  <<"C", "D", "S">>),
      Req("process",  TRUE,  TRUE,  <<"C", "D", "L">>),
      Req("process",  FALSE, TRUE,  <<"C", "D">>),
      Req("process",  TRUE,  FALSE, <<>>),
      Req("handle",   TRUE,  TRUE,  <<"\\", "L", "\\", "S">>),
      Req("handle",   FALSE, TRUE,  <<"S">>),
      Req("unload",   TRUE,  TRUE,  <<>>),
      Req("status",   FALSE, TRUE,  <<>>) }

MCChar == {"\\", "/", "B", "C", "D", "L", "S", "X", "Y"}

MCName == {r.target : r \in MCRequests}
=============================================================================
