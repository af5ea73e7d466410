------------------------------ MODULE MCStartup ------------------------------
(* Startup for TLC: all small config.ini over a few lines, with small        *)
(* snippets; and one configuration with all kinds of command lines.          *)
EXTENDS Startup

MCNames == {"", "screen", "screensaver", "tls", "enter", "enter ", "exit", "width", "height", "enable"}
MCPrefix == {<<n, n>> : n \in MCNames} \cup {<<"", n>> : n \in MCNames}
            \cup {<<"screen", "screensaver">>, <<"enter", "enter ">>}
MCValues == {Blank, "a", "b", "c", "long", "800", "65536", "yes", "no"}
MCNumberOf == [v \in MCValues \cup {Junk, Rest} |-> CASE v = "800" -> 800 [] v = "65536" -> 65536 [] OTHER -> 0]

Upto(lines, n) == UNION {[1..m -> lines] : m \in 0..n}
Screen == Header("screen")
IniLines == {Screen, Header("screensaver"), Entry("enter", "a"), Entry("enter ", "b"), Entry("enter", "long"), Entry("enter", Blank)}
SnippetLines == {Screen, Entry("enter", "b"), Entry("enter ", "c")}
Inis == Upto(IniLines, 2) \cup {<<Screen>> \o rest : rest \in [1..2 -> IniLines]}

NoFiles == [key \in Keys |-> NoFile]
Single == [NoFiles EXCEPT ![Enter] = "a", ![Exit] = "b"]
Fixed == <<Screen, Entry("enter", "c")>>

ByFiles == {[argv |-> <<>>, inis |-> (ConfigIni :> i @@ "1.ini" :> s @@ "2.ini" :> Fixed), single |-> Single] :
              i \in Inis, s \in Upto(SnippetLines, 2)}

Sized == [NoFiles EXCEPT ![Width] = "800", ![Height] = "800"]
Conf == <<Entry("width", "800"), Entry("height", "65536"), Header("tls"), Entry("enable", "yes")>>
Words == {Letters(<<"e">>), Letters(<<"n", "E">>), Letters(<<"n", "W">>), Letters(<<"W", "e">>),
          Name("W"), Name("H"), Name("F"), Letters(<<"c">>), Plain(5), Plain(70000), Dashes}
Repeated == {Letters(<<"n", "W">>), Name("H"), Name("e"), Plain(5), Plain(0)}
Refusals == {<<Letters(<<"x">>)>>, <<Name("h")>>, <<Letters(<<"e">>), Name("x"), Plain(5)>>}
ByWords == {[argv |-> w, inis |-> (ConfigIni :> Conf), single |-> Sized] :
              w \in Upto(Words, 3) \cup [1..4 -> Repeated] \cup Refusals}

MCInputs == ByFiles \cup ByWords
==============================================================================
