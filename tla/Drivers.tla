------------------------------- MODULE Drivers -------------------------------
(***************************************************************************)
(* The programs around the library: the three tools (apps) and the fuzz    *)
(* targets with the main each of them has when it is built on its own      *)
(* (fuzz, IPMB_STANDALONE_FUZZER).  A program is the sequence of what it   *)
(* does to the things it owns, its file, its buffer, and what the library  *)
(* gives it, with every branch it takes; what the library does inside is   *)
(* the subject of the other modules, of which these programs rely on one   *)
(* fact: a call that succeeds leaves something to release, and one that    *)
(* fails does not (AllOrNothing).                                          *)
(*                                                                         *)
(* The file is anybody's: it may be a stream that cannot be measured, and  *)
(* it may grow or shrink between being measured and being read.            *)
(***************************************************************************)
EXTENDS Integers, Sequences

CONSTANT FileSize      \* lengths a file may have, in bytes

ASSUME DriversAssumption == FileSize \subseteq Nat

VARIABLES
  program,    \* the name of the program
  todo,       \* what it still has to do
  held,       \* what it owns
  measured,   \* what ftell said; -1 for a stream that cannot be measured
  arrived,    \* the bytes fread has put into the buffer
  exit        \* what main returned, -1 before

driverVars == <<program, todo, held, measured, arrived, exit>>

(* What a program may do.  Try: a call that may give it thing; then it     *)
(* goes on with yes, else with no.  Grow: a call on a table that may own   *)
(* an array after it, and Drop releases that array if there is one.  One:  *)
(* a branch on what was read or on what the caller passed.  Any: a loop.   *)
Try(thing, yes, no) == [do |-> "try", what |-> thing, yes |-> yes, no |-> no]
Use(thing)          == [do |-> "use", what |-> thing]
Free(thing)         == [do |-> "free", what |-> thing]
Grow(thing)         == [do |-> "grow", what |-> thing]
Drop(thing)         == [do |-> "drop", what |-> thing]
One(yes, no)        == [do |-> "one", yes |-> yes, no |-> no]
Any(body)           == [do |-> "any", body |-> body]
Exit(status)        == [do |-> "exit", status |-> status]
Measure(fails)      == [do |-> "measure", fails |-> fails]
Read(yes, no)       == [do |-> "read", yes |-> yes, no |-> no]

(* Mutant: the buffer is kept when the file is shorter than it was.        *)
ReadFileKeeping(then) ==
  <<Try("file",
        <<Measure(<<Free("file"), Exit(1)>>),
          Try("buffer",
              <<Read(<<Free("file")>> \o then, <<Free("file"), Exit(1)>>)>>,
              <<Free("file"), Exit(1)>>)>>,
        <<Exit(1)>>)>>

(* read_file, the same in every tool: a tool that gets no buffer exits.    *)
ReadFile(then) ==
  <<Try("file",
        <<Measure(<<Free("file"), Exit(1)>>),
          Try("buffer",
              <<Read(<<Free("file")>> \o then, <<Free("buffer"), Free("file"), Exit(1)>>)>>,
              <<Free("file"), Exit(1)>>)>>,
        <<Exit(1)>>)>>

Usage == One(<<>>, <<Exit(2)>>)

(* ipmb-parse *)
ParseTool ==
  <<Usage>> \o ReadFile(
    <<Use("buffer"),
      Try("message",
          <<Any(<<Use("message")>>), Free("message"), Free("buffer"), Exit(0)>>,
          <<Free("buffer"), Exit(1)>>)>>)

(* ipmb-inspect: the kind is that of the magic number, if there are four   *)
(* bytes to hold one.                                                      *)
InspectTool == <<Usage>> \o ReadFile(<<Use("buffer"), Free("buffer"), Exit(0)>>)

(* ipmb-route.  A message without frames is refused, but not released.     *)
RouteMain ==
  <<Usage>> \o ReadFile(
    <<Use("buffer"),
      Try("message",
          <<One(<<>>, <<Free("buffer"), Exit(1)>>),
            Try("code",
                <<Use("message"), Use("code"), Free("code"),
                  One(<<Free("message"), Free("buffer"), Exit(0)>>, <<>>)>>,
                <<>>),
            Free("message"), Free("buffer"), Exit(1)>>,
          <<Free("buffer"), Exit(1)>>)>>)

(* The main of a fuzz target: every file it is given is read and tried; a  *)
(* file that cannot be measured is read all the same.                      *)
Standalone(target) ==
  <<Any(<<Try("file",
              <<Measure(<<>>),
                Try("buffer", <<Read(target, <<>>), Free("buffer")>>, <<>>),
                Free("file")>>,
              <<>>)>>),
    Exit(0)>>

(* A target that makes one call and releases what it gave. *)
Once(thing) == Standalone(<<Use("buffer"), Try(thing, <<Free(thing)>>, <<>>)>>)

DeltaCodecFuzzer    == Once("values")
RleCodecFuzzer      == Once("bytes")
FieldDecoderFuzzer  == Once("map")
JournalFuzzer       == Once("journal")
TelemetryFuzzer     == Once("batch")
TransportFuzzer     == Once("payload")

(* ipmb_replay_bytes releases what it needs itself. *)
ReplayFuzzer == Standalone(<<Use("buffer")>>)

FrameReaderFuzzer ==
  Standalone(<<Use("buffer"), Try("message", <<Use("message"), Free("message")>>, <<>>)>>)

(* Every payload is decoded as a register map before the message goes. *)
PipelineFuzzer ==
  Standalone(<<Use("buffer"),
               Try("message",
                   <<Any(<<Use("message"), Try("map", <<Free("map")>>, <<>>)>>),
                     Free("message")>>,
                   <<>>)>>)

CheckpointFuzzer ==
  Standalone(<<One(<<Use("buffer"), Grow("store"), Grow("store")>>, <<>>), Drop("store")>>)

HistogramFuzzer ==
  Standalone(<<One(<<Use("buffer")>>, <<>>),
               Try("bins", <<Any(<<Use("buffer"), Use("bins")>>), Free("bins")>>, <<>>)>>)

RingFuzzer ==
  Standalone(<<Try("ring", <<Any(<<Use("buffer"), Use("ring")>>), Free("ring")>>, <<>>)>>)

RuleParserFuzzer ==
  Standalone(<<Try("text", <<Use("buffer"), Use("text"), Free("text")>>, <<>>)>>)

RouteVMFuzzer ==
  Standalone(<<Try("text",
                   <<Use("buffer"), Use("text"),
                     Try("code", <<Use("code"), Free("code")>>, <<>>),
                     Free("text")>>,
                   <<>>)>>)

(* Every rule that compiles is copied into the table and released.  The    *)
(* number of rules, ten at most, is left out.                              *)
MatchTableFuzzer ==
  Standalone(<<One(<<Any(<<Use("buffer"),
                           Try("code", <<Grow("table"), Use("code"), Free("code")>>, <<>>)>>),
                     Drop("table")>>,
                   <<>>)>>)

Program ==
  [ipmb_parse |-> ParseTool, ipmb_inspect |-> InspectTool, ipmb_route |-> RouteMain,
   delta |-> DeltaCodecFuzzer, rle |-> RleCodecFuzzer, field_decoder |-> FieldDecoderFuzzer,
   journal |-> JournalFuzzer, telemetry |-> TelemetryFuzzer, transport |-> TransportFuzzer,
   replay |-> ReplayFuzzer, frame_reader |-> FrameReaderFuzzer, pipeline |-> PipelineFuzzer,
   checkpoint |-> CheckpointFuzzer, histogram |-> HistogramFuzzer, ring |-> RingFuzzer,
   rule_parser |-> RuleParserFuzzer, route_vm |-> RouteVMFuzzer,
   match_table |-> MatchTableFuzzer]

Tools == {"ipmb_parse", "ipmb_inspect", "ipmb_route"}

DriversInit ==
  /\ program \in DOMAIN Program
  /\ todo = Program[program]
  /\ held = {}
  /\ measured = 0
  /\ arrived = 0
  /\ exit = -1

-----------------------------------------------------------------------------

Doing(what) == todo # <<>> /\ Head(todo).do = what

Now == Head(todo)

(* What is done next, then the rest. *)
Go(on) == todo' = on \o Tail(todo)

Call ==
  /\ Doing("try")
  /\ \/ Go(Now.yes) /\ held' = held \cup {Now.what}
     \/ Go(Now.no) /\ UNCHANGED held
  /\ UNCHANGED <<measured, arrived, exit>>

Access ==
  /\ Doing("use")
  /\ Go(<<>>)
  /\ UNCHANGED <<held, measured, arrived, exit>>

Fill ==
  /\ Doing("grow")
  /\ Go(<<>>)
  /\ held' \in {held, held \cup {Now.what}}
  /\ UNCHANGED <<measured, arrived, exit>>

Release ==
  /\ Doing("free") \/ Doing("drop")
  /\ Go(<<>>)
  /\ held' = held \ {Now.what}
  /\ UNCHANGED <<measured, arrived, exit>>

Branch ==
  /\ Doing("one")
  /\ Go(Now.yes) \/ Go(Now.no)
  /\ UNCHANGED <<held, measured, arrived, exit>>

Turn ==
  /\ Doing("any")
  /\ Go(<<>>) \/ Go(Append(Now.body, Now))
  /\ UNCHANGED <<held, measured, arrived, exit>>

(* fseek, ftell and rewind. *)
MeasureFile ==
  /\ Doing("measure")
  /\ \/ measured' \in FileSize /\ Go(<<>>)
     \/ measured' = -1 /\ Go(Now.fails)
  /\ arrived' = 0
  /\ UNCHANGED <<held, exit>>

(* What malloc is asked for; (size_t)n is never 0 here. *)
Room == IF measured > 0 THEN measured ELSE 1

(* Mutant: everything the file has by now is read. *)
DeliveredAll(n) == n

(* Of n bytes the file has by now, those fread puts into the buffer; asked *)
(* for (size_t)-1 it delivers them all.                                    *)
Delivered(n) == IF measured = -1 \/ n <= measured THEN n ELSE measured

ReadBuffer ==
  /\ Doing("read")
  /\ \E n \in FileSize : arrived' = Delivered(n)
  /\ IF arrived' = measured THEN Go(Now.yes) ELSE Go(Now.no)
  /\ UNCHANGED <<held, measured, exit>>

Leave ==
  /\ Doing("exit")
  /\ exit' = Now.status
  /\ todo' = <<>>
  /\ UNCHANGED <<held, measured, arrived>>

Exited == exit # -1 /\ UNCHANGED driverVars

DriversNext ==
  \/ /\ Call \/ Access \/ Fill \/ Release \/ Branch \/ Turn
        \/ MeasureFile \/ ReadBuffer \/ Leave
     /\ UNCHANGED program
  \/ Exited

DriversSpec == DriversInit /\ [][DriversNext]_driverVars

-----------------------------------------------------------------------------

(* On every path, whichever calls fail, a program uses and releases only   *)
(* what it owns, never lets a second thing take the place of one it still  *)
(* owns, and owns nothing when it ends, its file and its buffer included;  *)
(* ipmb-route alone leaves the array of a message that has no frames.      *)
OwnsWhatItUses ==
  /\ Doing("use") \/ Doing("free") => Now.what \in held
  /\ Doing("try") => Now.what \notin held
  /\ exit # -1 => held = {} \/ (program = "ipmb_route" /\ exit = 1 /\ held = {"message"})

(* Whatever happens to a file between being measured and being read, no    *)
(* more is read than the buffer holds, and nothing but whole files is      *)
(* looked at: there is no byte in the buffer that was not read.  The main  *)
(* of the fuzz targets breaks the first of these, for a stream that cannot *)
(* be measured, and only for one.                                          *)
ReadsFit ==
  /\ arrived <= Room \/ (measured = -1 /\ program \notin Tools)
  /\ Doing("use") /\ Now.what = "buffer" => arrived = measured

=============================================================================
