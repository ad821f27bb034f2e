----------------------------- MODULE MCFileSession ----------------------------
(* A small instance of FileSession: a text of four lines with a repeated   *)
(* character, a lone CR and no terminator at its end.                      *)
EXTENDS FileSession

a == <<"a">>
b == <<"b">>
n == <<LF>>

FourLines == a \o a \o a \o n \o <<CR>> \o b \o n \o <<"c">>

MCInitialTexts == {FourLines}
MCForeignTexts == {FourLines, b \o n}
MCWriteTexts == {a \o n}
MCBlocks == {<< <<1, 3>> >>, << <<1, 1>>, <<3, 9>> >>}
MCWindows == {<<0, 99>>, <<0, 3>>, <<3, 99>>}

Edit(old, new, all) == [old |-> old, new |-> new, all |-> all]

(* A line joined to the next, a line split, an edit that overlaps itself,  *)
(* a batch of two, a batch whose edits overlap beside one that applies.    *)
MCBatches == {
    <<Edit(a \o n, << >>, FALSE)>>,
    <<Edit(b, b \o n \o b, FALSE)>>,
    <<Edit(a \o a, b, TRUE)>>,
    <<Edit(b, << >>, FALSE), Edit(a, <<"d">>, TRUE)>>,
    <<Edit(<<CR>> \o b, <<"e">>, FALSE), Edit(b \o n, <<"f">>, FALSE), Edit(a, << >>, TRUE)>>}

===============================================================================
