------------------------------ MODULE MCClipboard ------------------------------
(* Clipboard with texts of one and four letters, and server data of one and   *)
(* of two formats, the text before and after another one.  Of the data with   *)
(* the text first, the second header is taken to be one of four letters, the  *)
(* last of which is beyond the buffer.                                        *)
EXTENDS Clipboard

a == 1
b == 2
MCTexts == {<<a>>, <<b, b, b, a>>}
F(format, text) == [format |-> format, text |-> text]
MCServerData == {<<F(0, <<a>>), F(1, <<b, b>>)>>, <<F(1, <<a, b, a>>), F(0, <<b>>)>>}
================================================================================
