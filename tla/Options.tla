------------------------------- MODULE Options -------------------------------
(***************************************************************************)
(* The command line as sopt_getopt (sopt.h) takes it apart for main.c, one *)
(* option per call: words of several letters, options with an argument in  *)
(* the next word, long names, and -- .  An option is named by its letter,  *)
(* whether it is written in its short or its long form.                    *)
(***************************************************************************)
EXTENDS Integers, Sequences, FiniteSets, FiniteSetsExt

NaN == 99999       \* a word that is no number, or beyond all that is asked for
Nothing == "end"   \* getopt's -1

(* optspec of main.c, of each kind of option those that differ in what they *)
(* do: -W, -H and -c have an argument, F is --fatal-ebsy.                   *)
Opts == {"W", "H", "c", "n", "e", "E", "F", "h"}
Shorts == {"W", "H"}         \* SOPT_ARGTYPE_SHORT
WithArg == Shorts \cup {"c"}
LongOnly == {"F"}
Invalid == "?"

(* A word of the command line: letters after one -, a name after two, --    *)
(* itself or any other; arg is its value when it is read as an argument.    *)
(* A single - is left out: sopt_getopt reads on behind its end.             *)
Letters(ls) == [kind |-> "letters", opts |-> ls, arg |-> NaN]
Name(o) == [kind |-> "name", opts |-> <<o>>, arg |-> NaN]
Dashes == [kind |-> "end", opts |-> <<>>, arg |-> NaN]
Plain(v) == [kind |-> "plain", opts |-> <<>>, arg |-> v]
IsWord(w) ==
  \/ w.arg = NaN /\ w.opts \in Seq(STRING)
     /\ \/ w = Letters(w.opts) /\ w.opts # <<>>
        \/ Len(w.opts) = 1 /\ w = Name(w.opts[1])
        \/ w = Dashes
  \/ w.arg \in Int /\ w = Plain(w.arg)

ShortRange == -32768..32767

(* One call: the option or the end, its argument, optind and cpos.          *)
Result(opt, arg, ind, pos) == [opt |-> opt, arg |-> arg, ind |-> ind, pos |-> pos]
Refused == Result(Invalid, NaN, 0, 0)

TakeArgInPlace(argv, opt, i, pos) ==    \* mutant: the argument is not skipped
  IF opt \notin WithArg THEN Result(opt, NaN, i, pos)
  ELSE IF i = Len(argv) THEN Refused
  ELSE Result(opt, argv[i + 1].arg, i, pos)
TakeArg(argv, opt, i, pos) ==
  IF opt \notin WithArg THEN Result(opt, NaN, i, pos)
  ELSE IF i = Len(argv) THEN Refused
  ELSE IF opt \in Shorts /\ argv[i + 1].arg \notin ShortRange THEN Refused
  ELSE Result(opt, argv[i + 1].arg, i + 1, pos)

(* The p-th letter of word i; an argument can only follow the last. *)
ShortOpt(argv, i, p) ==
  LET opt == argv[i].opts[p]
      last == p = Len(argv[i].opts)
  IN  IF opt \notin Opts \ LongOnly \/ (~last /\ opt \in WithArg) THEN Refused
      ELSE TakeArg(argv, opt, i, IF last THEN 0 ELSE p + 1)

LongOpt(argv, i) ==
  IF argv[i].opts[1] \in Opts THEN TakeArg(argv, argv[i].opts[1], i, 0) ELSE Refused

End(i) == Result(Nothing, NaN, i, 0)

GetOpt(argv, ind, pos) ==
  IF pos # 0 THEN ShortOpt(argv, ind, pos)
  ELSE IF ind = Len(argv) \/ argv[ind + 1].kind \in {"plain", "end"} THEN End(ind + 1)
  ELSE IF argv[ind + 1].kind = "name" THEN LongOpt(argv, ind + 1)
  ELSE ShortOpt(argv, ind + 1, 1)

-----------------------------------------------------------------------------
(* What the words mean, without a parser: word i is an argument when the    *)
(* word before it is not and ends in an option that takes one; the options  *)
(* are the letters and names before the first word that is neither.         *)

IsArgument(argv) ==
  LET arg[i \in 0..Len(argv)] ==
        /\ i > 1 /\ ~arg[i - 1]
        /\ argv[i - 1].opts # <<>> /\ argv[i - 1].opts[Len(argv[i - 1].opts)] \in WithArg
  IN  arg

OptionWords(argv) ==
  {i \in DOMAIN argv : \A j \in 1..i : argv[j].opts # <<>> \/ IsArgument(argv)[j]}
    \ {i \in DOMAIN argv : IsArgument(argv)[i]}

(* The last word with one of the options, and the last of them in it.       *)
Given(argv, opts) ==
  {i \in OptionWords(argv) : \E j \in DOMAIN argv[i].opts : argv[i].opts[j] \in opts}
LastOpt(argv, opts) ==
  LET w == argv[Max(Given(argv, opts))].opts
  IN  w[Max({j \in DOMAIN w : w[j] \in opts})]
LastArg(argv, opt) ==
  LET next == Max(Given(argv, {opt})) + 1
  IN  IF next \in DOMAIN argv THEN argv[next].arg ELSE NaN
==============================================================================
