---------------------------- MODULE MCMimeParser ----------------------------
(* Instances of MimeParser for TLC: messages of up to three parts, with    *)
(* the data on which a search for a delimiter can go wrong.                *)
EXTENDS MimeParser

TheBoundary == <<LF, "--B">>
OtherWords == {"--B", "id", "x", "y", "z"}

Delim == <<CR>> \o TheBoundary \o <<CR, LF>>
Close == <<CR>> \o TheBoundary \o <<Dash, Dash>>

Header(root) == (IF root THEN <<RootId>> ELSE <<"id">>) \o EmptyLine

\* Data of every length around that of the buffer, line ends, all the
\* beginnings of a delimiter, and a boundary that something else follows.
Lengths == {[i \in 1 .. k |-> "x"] : k \in {0, 1, 2, 4, 5, 6}}
LineEnds == {<<CR>>, <<CR, LF>>, <<"x", CR, CR>>, EmptyLine}
Beginnings == {<<CR>> \o TheBoundary, <<CR>> \o TheBoundary \o <<Dash>>,
               <<CR>> \o TheBoundary \o <<Dash, "x">>,
               <<CR>> \o TheBoundary \o <<"x">>}
FalseOnes == {<<"x", "y">> \o <<CR>> \o TheBoundary \o <<CR, "x">>}

Part(root, data) == Delim \o Header(root) \o data

OnePart == {Part(root, d) \o Close : root \in BOOLEAN,
              d \in Lengths \cup LineEnds \cup Beginnings \cup FalseOnes}
TwoParts == {Part(TRUE, d) \o Part(FALSE, e) \o Close :
               d \in LineEnds \cup {<<"x", "y", "z">>},
               e \in Beginnings \cup {<< >>, <<"x", "y">>}}
Others ==
  { Part(FALSE, <<"x">>) \o Part(TRUE, << >>) \o Delim \o Close,  \* an empty part
    <<"x", CR, LF>> \o Part(TRUE, <<"y", "z">>) \o Close \o <<CR, LF>>,
    Delim \o <<RootId>> \o Close,                      \* a header without end
    Delim \o [i \in 1 .. 9 |-> "x"] \o EmptyLine \o <<"y", "z">> \o Close,  \* too long
    Part(TRUE, <<"x", "y">>) \o Delim,                 \* cut off
    Part(TRUE, <<"x", CR, LF>>),
    Delim \o <<RootId, CR>> \o EmptyLine \o <<"x", "y", "z">> \o Close,
    Close,
    Part(TRUE, <<"x", "y">>) \o Close \o Part(FALSE, <<"z">>) }

AllMessages == OnePart \cup TwoParts \cup Others

=============================================================================
