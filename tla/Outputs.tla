------------------------------- MODULE Outputs -------------------------------
(***************************************************************************)
(* The list of outputs wayland.c keeps from the compositor's events, and   *)
(* the size of the screen main.c works out from it.  Only the horizontal   *)
(* axis is modelled; the vertical one goes the same way.                   *)
(***************************************************************************)
EXTENDS Integers, FiniteSets, SequencesExt, FiniteSetsExt

CONSTANTS
  Names,       \* outputs that may appear, each once: wl_name, wl_output and xdg_output
  Geometries,  \* their geometries: physical and logical position and width
  Losses,      \* outputs may go away
  MaxChanges   \* bound: changes of an output's geometry

ASSUME NamesAssumption == "xdg" \notin Names   \* the manager's
ASSUME GeometriesAssumption ==
  Geometries \subseteq [x : Int, width : Nat, logX : Int, logWidth : Nat]
ASSUME SwitchesAssumption ==
  Losses \in BOOLEAN /\ MaxChanges \in Nat

VARIABLES
  outputs,         \* ctx->outputs
  outputManager,   \* ctx->output_manager is bound
  reported,        \* the width last given to uSynergyUpdateRes and wlResUpdate
  manualSize,      \* width and height are configured: on_output_update is NULL
  running,         \* the program has not crashed
  events,          \* events on their way from the compositor
  layout,          \* the compositor's outputs and their geometries
  bound,           \* what the client has bound: name |-> with its xdg_output or not
  gone,            \* names used up
  announced,       \* the compositor has announced its xdg_output manager
  changes          \* geometry changes so far

client == <<outputs, outputManager, reported, manualSize, running>>
compositor == <<layout, gone, announced, changes>>
vars == <<client, events, bound, compositor>>

None == -1

Output == [name : Names, xdg : BOOLEAN, complete : BOOLEAN, haveLogPos : BOOLEAN,
           haveLogSize : BOOLEAN, x : Int, width : Nat]
Partial(R) == UNION {[S -> R] : S \in SUBSET Names}

TypeOK ==
  /\ outputs \in Seq(Output) /\ outputManager \in BOOLEAN /\ reported \in Nat \cup {None}
  /\ manualSize \in BOOLEAN /\ running \in BOOLEAN /\ layout \in Partial(Geometries) /\ bound \in Partial(BOOLEAN)
  /\ gone \subseteq Names /\ announced \in BOOLEAN /\ changes \in 0..MaxChanges

Init ==
  /\ outputs = <<>> /\ outputManager = FALSE /\ reported = None /\ manualSize \in BOOLEAN
  /\ running = TRUE
  /\ events = <<>> /\ layout = <<>> /\ bound = <<>> /\ gone = {}
  /\ announced = FALSE /\ changes = 0

-----------------------------------------------------------------------------
(* The compositor.  What it sends about an output ends with "done". *)

Event(type, name, value) == [type |-> type, name |-> name, value |-> value]
WlEvents(n, g) == <<Event("geometry", n, g.x), Event("mode", n, g.width), Event("scale", n, 1)>>
XdgEvents(n, g) == <<Event("position", n, g.logX), Event("size", n, g.logWidth)>>
Done(n) == <<Event("done", n, 0)>>

With(f, n, value) == [m \in DOMAIN f \cup {n} |-> IF m = n THEN value ELSE f[m]]
Without(f, n) == [m \in DOMAIN f \ {n} |-> f[m]]

Plug(n) ==
  /\ n \notin DOMAIN layout \cup gone
  /\ \E g \in Geometries : layout' = With(layout, n, g)
  /\ events' = Append(events, Event("global", n, 0))
  /\ UNCHANGED <<client, bound, gone, announced, changes>>

Unplug(n) ==
  /\ Losses /\ n \in DOMAIN layout
  /\ layout' = Without(layout, n) /\ gone' = gone \cup {n}
  /\ events' = Append(events, Event("remove", n, 0))
  /\ UNCHANGED <<client, bound, announced, changes>>

Change(n) ==
  /\ changes < MaxChanges /\ n \in DOMAIN layout
  /\ changes' = changes + 1
  /\ \E g \in Geometries :
       /\ layout' = [layout EXCEPT ![n] = g]
       /\ \/ n \notin DOMAIN bound /\ UNCHANGED events
          \/ n \in DOMAIN bound /\ ~bound[n] /\ events' = events \o WlEvents(n, g) \o Done(n)
          \/ n \in DOMAIN bound /\ bound[n] /\ events' = events \o XdgEvents(n, g) \o WlEvents(n, g) \o Done(n)
  /\ UNCHANGED <<client, bound, gone, announced>>

Announce ==
  /\ ~announced /\ announced' = TRUE
  /\ events' = Append(events, Event("manager", "xdg", 0))
  /\ UNCHANGED <<client, bound, layout, gone, changes>>

-----------------------------------------------------------------------------
ExtentReversed(boxes) == Min({0} \cup {o.x : o \in boxes}) - Max({0} \cup {o.x + o.width : o \in boxes})   \* mutant

(* wl_output_update_cb: the outputs and the origin, from edge to edge *)
Extent(boxes) == Max({0} \cup {o.x + o.width : o \in boxes}) - Min({0} \cup {o.x : o \in boxes})

Report == reported' = Extent(ToSet(outputs'))

Arrives(type) ==
  /\ running /\ events # <<>> /\ Head(events).type = type
Name == Head(events).name
Value == Head(events).value
Known == {o.name : o \in ToSet(outputs)}

(* handle_global for an output: it is bound, and its properties follow *)
GlobalOutput ==
  /\ Arrives("global")
  /\ outputs' = Append(outputs,
       [name |-> Name, xdg |-> outputManager, complete |-> FALSE, haveLogPos |-> FALSE,
        haveLogSize |-> FALSE, x |-> 0, width |-> 0])
  /\ IF Name \in DOMAIN layout
     THEN /\ bound' = With(bound, Name, outputManager)
          /\ events' = Tail(events) \o WlEvents(Name, layout[Name])
                         \o (IF outputManager THEN XdgEvents(Name, layout[Name]) ELSE <<>>) \o Done(Name)
     ELSE events' = Tail(events) /\ UNCHANGED bound
  /\ UNCHANGED <<outputManager, reported, manualSize, running, compositor>>

(* handle_global for the manager: every output gets its xdg_output *)
GlobalManager ==
  /\ Arrives("manager")
  /\ outputManager' = TRUE
  /\ outputs' = [i \in DOMAIN outputs |-> [outputs[i] EXCEPT !.xdg = TRUE]]
  /\ bound' = [n \in DOMAIN bound |-> bound[n] \/ n \in Known]
  /\ events' = Tail(events) \o FlattenSeq([i \in DOMAIN outputs |->
       LET n == outputs[i].name
       IN  IF outputs[i].xdg \/ n \notin DOMAIN layout THEN <<>> ELSE XdgEvents(n, layout[n]) \o Done(n)])
  /\ UNCHANGED <<reported, manualSize, running, compositor>>

(* A listener changes the output it finds in the list, if it does. *)
Mutate(type, skip(_), change(_)) ==
  /\ Arrives(type)
  /\ outputs' = [i \in DOMAIN outputs |->
       IF outputs[i].name = Name /\ ~skip(outputs[i]) THEN change(outputs[i]) ELSE outputs[i]]
  /\ events' = Tail(events)
  /\ UNCHANGED <<outputManager, reported, manualSize, running, bound, compositor>>

Never(o) == FALSE
OutputGeometryAlways ==   \* mutant: also when the logical position is known
  Mutate("geometry", Never, LAMBDA o : [o EXCEPT !.complete = FALSE, !.x = Value])
OutputGeometry == Mutate("geometry", LAMBDA o : o.haveLogPos,
                         LAMBDA o : [o EXCEPT !.complete = FALSE, !.x = Value])
OutputMode == Mutate("mode", LAMBDA o : o.haveLogSize,
                     LAMBDA o : [o EXCEPT !.complete = FALSE, !.width = Value])
OutputScale == Mutate("scale", Never, LAMBDA o : [o EXCEPT !.complete = FALSE])
XdgOutputPos == Mutate("position", Never,
                       LAMBDA o : [o EXCEPT !.complete = FALSE, !.haveLogPos = TRUE, !.x = Value])
XdgOutputSize == Mutate("size", Never,
                        LAMBDA o : [o EXCEPT !.complete = FALSE, !.haveLogSize = TRUE, !.width = Value])

OutputDoneEach ==         \* mutant: other outputs are not looked at
  /\ Arrives("done")
  /\ outputs' = [i \in DOMAIN outputs |->
       IF outputs[i].name = Name THEN [outputs[i] EXCEPT !.complete = TRUE] ELSE outputs[i]]
  /\ IF Name \in Known /\ ~manualSize THEN Report ELSE UNCHANGED reported
  /\ events' = Tail(events)
  /\ UNCHANGED <<outputManager, manualSize, running, bound, compositor>>

OutputDone ==
  /\ Arrives("done")
  /\ outputs' = [i \in DOMAIN outputs |->
       IF outputs[i].name = Name THEN [outputs[i] EXCEPT !.complete = TRUE] ELSE outputs[i]]
  /\ IF Name \in Known /\ (\A o \in ToSet(outputs') : o.complete) /\ ~manualSize
     THEN Report ELSE UNCHANGED reported
  /\ events' = Tail(events)
  /\ UNCHANGED <<outputManager, manualSize, running, bound, compositor>>

RemovedNot(list, name) == IF list[1].name = name THEN <<>> ELSE list   \* mutant: the others are kept

Others(list, name) ==
  FlattenSeq([i \in DOMAIN list |-> IF list[i].name = name THEN <<>> ELSE <<list[i]>>])

(* wlOutputRemove: of the first output, the list is forgotten *)
Removed(list, name) == IF list[1].name = name THEN <<>> ELSE Others(list, name)

(* handle_global_remove calls on_output_update, NULL or not.  Destroying    *)
(* the output discards its events.                                          *)
GlobalRemove ==
  /\ Arrives("remove")
  /\ IF Name \in Known
     THEN /\ outputs' = Removed(outputs, Name)
          /\ bound' = Without(bound, Name)
          /\ events' = Others(Tail(events), Name)
          /\ IF manualSize THEN running' = FALSE /\ UNCHANGED reported
                           ELSE Report /\ UNCHANGED running
     ELSE events' = Tail(events) /\ UNCHANGED <<outputs, bound, reported, running>>
  /\ UNCHANGED <<outputManager, manualSize, compositor>>

Dispatch ==
  \/ GlobalOutput \/ GlobalManager \/ GlobalRemove \/ OutputDone
  \/ OutputGeometry \/ OutputMode \/ OutputScale \/ XdgOutputPos \/ XdgOutputSize

(* Nothing is left to tell. *)
Idle == (~running \/ events = <<>>) /\ UNCHANGED vars

Next == (\E n \in Names : Plug(n) \/ Unplug(n) \/ Change(n)) \/ Announce \/ Dispatch \/ Idle
Spec == Init /\ [][Next]_vars

-----------------------------------------------------------------------------
(* Properties. *)

(* What an output occupies: its logical geometry where xdg-output gives it. *)
Shown(g) == IF announced THEN [x |-> g.logX, width |-> g.logWidth] ELSE [x |-> g.x, width |-> g.width]

(* When all events are handled, the size the server and the pointer work    *)
(* with is that of the compositor's layout, whatever the order in which     *)
(* outputs and their manager appear, change and disappear: as long as the   *)
(* outputs of the list are those of the layout (wlOutputRemove may forget   *)
(* more than the one that is lost).                                         *)
ReportedIsLayout ==
  events = <<>> /\ reported # None /\ Known = DOMAIN layout =>
    reported = Extent({Shown(layout[n]) : n \in DOMAIN layout})

(* Then too, no output in the list has gone away, is listed twice, or shows *)
(* a geometry it has no longer: not even when outputs are lost.             *)
NoGhosts ==
  events = <<>> /\ running =>
    /\ \A o \in ToSet(outputs) :
         o.name \in DOMAIN layout /\ o.complete /\ [x |-> o.x, width |-> o.width] = Shown(layout[o.name])
    /\ Cardinality(Known) = Len(outputs)

(* Unless an output is lost, the screen is not measured while an output is  *)
(* being described.                                                         *)
MeasuredWhenComplete ==
  [][reported' # reported /\ Len(outputs') >= Len(outputs) =>
       \A o \in ToSet(outputs') : o.complete]_vars

(* When an output is lost, the rest of the screen is what is reported.      *)
LossIsMeasured ==
  events = <<>> /\ reported # None => reported = Extent({Shown(layout[n]) : n \in DOMAIN layout})
==============================================================================
