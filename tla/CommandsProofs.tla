--------------------------- MODULE CommandsProofs ---------------------------
(***************************************************************************)
(* The shell runs the command that was registered, and debug does what the *)
(* line says, for every table, every set of keywords and every line.       *)
(***************************************************************************)
EXTENDS Commands, SequenceTheorems, WellFoundedInduction, TLAPS

Command == [keyword : STRING, handler : STRING]

CommandsTyped ==
  /\ registeredCmds \in 0 .. CMD_COMMAND_AMOUNT + 1
  /\ registered \in Seq(Command) /\ Len(registered) = registeredCmds
  /\ DOMAIN commands = 0 .. CMD_COMMAND_AMOUNT
  /\ main \in {"init", "poll", "command", "handler", "done", "lost"}
  /\ main = "init" => registeredCmds < Len(BuiltIn)
  /\ next \in Nat \ {0}
  /\ debugFlag \in BOOLEAN /\ before \in BOOLEAN

(***************************************************************************)
(* The table holds the commands in the order they were registered in.      *)
(***************************************************************************)
TableHolds ==
  \A k \in 1 .. Len(registered) :
    commands[k - 1] = Entry(registered[k].keyword, registered[k].handler)

NoneLong == \A k \in 1 .. Len(registered) : registered[k].keyword \notin LongKeyword

FirstFor(word) == registered[Min(For(word))].handler

Ran ==
  /\ main = "command" => ran = "none"
  /\ main \in {"handler", "done", "lost"} /\ NoneLong =>
       ran = IF line = <<>> \/ For(line[1]) = {} THEN "none" ELSE FirstFor(line[1])

CommandsInv == CommandsTyped /\ TableHolds /\ Ran

-----------------------------------------------------------------------------

LEMMA BuiltInCommands ==
  /\ Len(BuiltIn) \in Nat \ {0} /\ Len(BuiltIn) <= CMD_COMMAND_AMOUNT
  /\ CMD_COMMAND_AMOUNT \in Nat
  /\ \A k \in 1 .. Len(BuiltIn) : BuiltIn[k] \in STRING
<1>1. BuiltIn \in Seq(STRING) /\ BuiltIn # <<>>
  BY CommandsAssumption
<1>2. Len(BuiltIn) \in Nat \ {0}
  BY <1>1, EmptySeq
<1>3. \A k \in 1 .. Len(BuiltIn) : BuiltIn[k] \in STRING
  BY <1>1, ElementOfSeq
<1> QED
  BY <1>2, <1>3, CommandsAssumption

(***************************************************************************)
(* A nonempty set of numbers has a least one.                              *)
(***************************************************************************)
LEMMA LessThanIsWellFounded ==
  IsWellFoundedOn({ss \in Nat \X Nat : ss[1] < ss[2]}, Nat)
BY NatLessThanWellFounded DEF OpToRel

LEMMA LeastOf ==
  ASSUME NEW T, T \subseteq Nat, T # {}
  PROVE  Min(T) \in T /\ \A j \in T : Min(T) <= j
<1>1. PICK k \in T : \A j \in T : ~(<<j, k>> \in {ss \in Nat \X Nat : ss[1] < ss[2]})
  BY LessThanIsWellFounded, WFMin
<1>2. ASSUME NEW j \in T PROVE k <= j
  <2>1. j \in Nat /\ k \in Nat
    OBVIOUS
  <2>2. j < k => <<j, k>> \in {ss \in Nat \X Nat : ss[1] < ss[2]}
    BY <2>1
  <2> QED
    BY <1>1, <2>1, <2>2
<1> QED
  BY <1>2 DEF Min

LEMMA EntryFields ==
  ASSUME NEW keyword, NEW handler
  PROVE  /\ Entry(keyword, handler).keyword = keyword
         /\ keyword \notin LongKeyword => Entry(keyword, handler).handler = handler
BY DEF Entry

(***************************************************************************)
(* Registering keeps the table and the record of it in step.               *)
(***************************************************************************)
LEMMA RegisterKeeps ==
  ASSUME CommandsTyped, TableHolds, NEW keyword \in STRING, NEW handler \in STRING,
         RegisterCommand(keyword, handler)
  PROVE  /\ TableHolds'
         /\ registeredCmds' \in 0 .. CMD_COMMAND_AMOUNT + 1
         /\ registeredCmds' = registeredCmds + 1
         /\ registered' \in Seq(Command) /\ Len(registered') = registeredCmds'
         /\ DOMAIN commands' = 0 .. CMD_COMMAND_AMOUNT
<1> DEFINE new == [keyword |-> keyword, handler |-> handler]
<1>1. /\ registeredCmds < CMD_COMMAND_AMOUNT + 1 /\ registeredCmds' = registeredCmds + 1
      /\ commands' = [commands EXCEPT ![registeredCmds] = Entry(keyword, handler)]
      /\ registered' = Append(registered, new)
  BY DEF RegisterCommand
<1>2. registeredCmds \in 0 .. CMD_COMMAND_AMOUNT /\ CMD_COMMAND_AMOUNT \in Nat
  BY <1>1, BuiltInCommands DEF CommandsTyped
<1>3. new \in Command /\ new.keyword = keyword /\ new.handler = handler
  BY DEF Command
<1> HIDE DEF new
<1>4. /\ registered' \in Seq(Command) /\ Len(registered') = registeredCmds + 1
      /\ \A k \in 1 .. registeredCmds : registered'[k] = registered[k]
      /\ registered'[registeredCmds + 1] = new
  BY <1>1, <1>3, AppendProperties DEF CommandsTyped
<1>5. DOMAIN commands' = 0 .. CMD_COMMAND_AMOUNT
  BY <1>1 DEF CommandsTyped
<1>6. \A i \in 0 .. CMD_COMMAND_AMOUNT :
        commands'[i] = IF i = registeredCmds THEN Entry(keyword, handler) ELSE commands[i]
  BY <1>1 DEF CommandsTyped
<1>7. ASSUME NEW k \in 1 .. registeredCmds + 1
      PROVE  commands'[k - 1] = Entry(registered'[k].keyword, registered'[k].handler)
  <2>1. k - 1 \in 0 .. CMD_COMMAND_AMOUNT
    BY <1>2
  <2>2. CASE k = registeredCmds + 1
    <3>1. k - 1 = registeredCmds
      BY <1>2, <2>2
    <3> QED
      BY <1>3, <1>4, <1>6, <2>1, <2>2, <3>1
  <2>3. CASE k # registeredCmds + 1
    <3>1. k \in 1 .. registeredCmds /\ k - 1 # registeredCmds
      BY <1>2, <2>3
    <3>2. commands[k - 1] = Entry(registered[k].keyword, registered[k].handler)
      BY <3>1 DEF TableHolds, CommandsTyped
    <3> QED
      BY <1>4, <1>6, <2>1, <3>1, <3>2
  <2> QED
    BY <2>2, <2>3
<1>8. TableHolds'
  BY <1>4, <1>7 DEF TableHolds, Entry
<1> QED
  BY <1>1, <1>2, <1>4, <1>5, <1>8

(***************************************************************************)
(* The search of processCommand and the record of what was registered find *)
(* the same command.                                                       *)
(***************************************************************************)
LEMMA FoundIsFirst ==
  ASSUME CommandsTyped, TableHolds, line # <<>>
  PROVE  /\ Matches = {} <=> For(line[1]) = {}
         /\ NoneLong /\ Matches # {} => commands[Found].handler = FirstFor(line[1])
<1> DEFINE word == line[1]
<1>1. registeredCmds \in Nat /\ Len(registered) = registeredCmds
      /\ DOMAIN registered = 1 .. registeredCmds
  BY BuiltInCommands, LenProperties DEF CommandsTyped
<1>2. \A k \in 1 .. registeredCmds :
        commands[k - 1] = Entry(registered[k].keyword, registered[k].handler)
  BY <1>1 DEF TableHolds
<1>3. Matches = {i \in 0 .. registeredCmds - 1 : Plain(commands[i].keyword) = word}
  BY DEF Matches
<1>4. For(word) = {k \in 1 .. registeredCmds : Plain(registered[k].keyword) = word}
  BY <1>1 DEF For
<1> HIDE DEF word
<1>5. \A k \in 1 .. registeredCmds : k - 1 \in Matches <=> k \in For(word)
  <2> TAKE k \in 1 .. registeredCmds
  <2>1. k - 1 \in 0 .. registeredCmds - 1
    BY <1>1
  <2>2. commands[k - 1].keyword = registered[k].keyword
    BY <1>2, EntryFields
  <2> QED
    BY <1>3, <1>4, <2>1, <2>2
<1>6. \A i \in Matches : i \in Nat /\ i + 1 \in For(word)
  <2> TAKE i \in Matches
  <2>1. i \in 0 .. registeredCmds - 1
    BY <1>3
  <2>2. i \in Nat /\ i + 1 \in 1 .. registeredCmds /\ (i + 1) - 1 = i
    BY <1>1, <2>1
  <2> QED
    BY <1>5, <2>2
<1>7. \A k \in For(word) : k \in 1 .. registeredCmds /\ k - 1 \in Matches
  BY <1>4, <1>5
<1>8. Matches = {} <=> For(word) = {}
  BY <1>6, <1>7
<1>9. ASSUME NoneLong, Matches # {}
      PROVE  commands[Found].handler = FirstFor(word)
  <2>1. Found \in Matches /\ \A i \in Matches : Found <= i
    BY <1>6, <1>9, LeastOf DEF Found
  <2>2. Min(For(word)) \in For(word) /\ \A k \in For(word) : Min(For(word)) <= k
    <3>1. For(word) \subseteq Nat /\ For(word) # {}
      BY <1>1, <1>4, <1>8, <1>9
    <3> QED
      BY <3>1, LeastOf
  <2>3. PICK m \in For(word) : m = Min(For(word)) /\ \A k \in For(word) : m <= k
    BY <2>2
  <2>4. PICK i \in Matches : i = Found /\ \A j \in Matches : i <= j
    BY <2>1
  <2>5. m \in 1 .. registeredCmds /\ m - 1 \in Matches /\ i \in Nat /\ i + 1 \in For(word)
    BY <1>6, <1>7
  <2>6. m <= i + 1 /\ i <= m - 1
    BY <2>3, <2>4, <2>5
  <2>7. m = i + 1 /\ m - 1 = i
    BY <1>1, <2>5, <2>6
  <2>8. registered[m].keyword \notin LongKeyword
    BY <1>1, <1>9, <2>5 DEF NoneLong
  <2>9. commands[i].handler = registered[m].handler
    BY <1>2, <2>5, <2>7, <2>8, EntryFields
  <2> QED
    BY <2>3, <2>4, <2>9 DEF FirstFor
<1> QED
  BY <1>8, <1>9 DEF word

-----------------------------------------------------------------------------

LEMMA CommandsInitially == CommandsInit => CommandsInv
<1> SUFFICES ASSUME CommandsInit PROVE CommandsInv
  OBVIOUS
<1>1. CommandsTyped
  BY BuiltInCommands, EmptySeq DEF CommandsInit, CommandsTyped
<1>2. Len(registered) = 0
  BY DEF CommandsInit
<1> QED
  BY <1>1, <1>2 DEF CommandsInit, CommandsInv, TableHolds, Ran

(***************************************************************************)
(* The steps that leave the table alone.                                   *)
(***************************************************************************)
LEMMA SameTable ==
  ASSUME CommandsInv, UNCHANGED <<commands, registeredCmds, registered>>,
         main' \in {"poll", "command", "handler", "done", "lost"},
         next' \in Nat \ {0}, debugFlag' \in BOOLEAN, before' \in BOOLEAN
  PROVE  CommandsTyped' /\ TableHolds'
BY DEF CommandsInv, CommandsTyped, TableHolds, Entry

LEMMA CommandsInductive == CommandsInv /\ [CommandsNext]_cmdVars => CommandsInv'
<1> SUFFICES ASSUME CommandsInv, [CommandsNext]_cmdVars PROVE CommandsInv'
  OBVIOUS
<1>1. /\ CommandsTyped /\ TableHolds /\ next \in Nat \ {0}
      /\ debugFlag \in BOOLEAN /\ before \in BOOLEAN
  BY DEF CommandsInv, CommandsTyped
<1>2. CASE CliInit
  <2>1. registeredCmds \in Nat /\ registeredCmds < Len(BuiltIn)
    BY <1>2, BuiltInCommands DEF CliInit, CommandsInv, CommandsTyped
  <2>2. BuiltIn[registeredCmds + 1] \in STRING
    BY <2>1, BuiltInCommands
  <2>3. /\ TableHolds'
        /\ registeredCmds' \in 0 .. CMD_COMMAND_AMOUNT + 1
        /\ registeredCmds' = registeredCmds + 1
        /\ registered' \in Seq(Command) /\ Len(registered') = registeredCmds'
        /\ DOMAIN commands' = 0 .. CMD_COMMAND_AMOUNT
    BY <1>1, <1>2, <2>2, RegisterKeeps DEF CliInit
  <2>4. /\ main' \in {"init", "poll"}
        /\ main' = "init" => registeredCmds' < Len(BuiltIn)
    BY <1>2, <2>1, <2>3, BuiltInCommands DEF CliInit
  <2>5. UNCHANGED <<next, debugFlag, before>>
    BY <1>2 DEF CliInit
  <2>6. CommandsTyped'
    BY <1>1, <2>3, <2>4, <2>5 DEF CommandsTyped
  <2> QED
    BY <2>3, <2>4, <2>6 DEF CommandsInv, Ran
<1>3. CASE ApplicationRegisters
  <2>1. PICK c \in Application : RegisterCommand(c.keyword, c.handler)
    BY <1>3 DEF ApplicationRegisters
  <2>2. c.keyword \in STRING /\ c.handler \in STRING
    BY CommandsAssumption
  <2>3. /\ TableHolds'
        /\ registeredCmds' \in 0 .. CMD_COMMAND_AMOUNT + 1
        /\ registered' \in Seq(Command) /\ Len(registered') = registeredCmds'
        /\ DOMAIN commands' = 0 .. CMD_COMMAND_AMOUNT
    BY <1>1, <2>1, <2>2, RegisterKeeps
  <2>4. main' = "poll" /\ UNCHANGED <<next, debugFlag, before>>
    BY <1>3 DEF ApplicationRegisters
  <2>5. CommandsTyped'
    BY <1>1, <2>3, <2>4 DEF CommandsTyped
  <2> QED
    BY <2>3, <2>4, <2>5 DEF CommandsInv, Ran
<1>4. CASE TakeLine
  <2>1. /\ UNCHANGED <<commands, registeredCmds, registered, debugFlag>>
        /\ main' = "command" /\ next' = 1 /\ ran' = "none" /\ before' = debugFlag
    BY <1>4 DEF TakeLine
  <2>2. CommandsTyped' /\ TableHolds'
    BY <1>1, <2>1, SameTable
  <2> QED
    BY <2>1, <2>2 DEF CommandsInv, Ran
<1>5. CASE ProcessCommand
  <2>1. /\ UNCHANGED <<commands, registeredCmds, registered, line, debugFlag, before>>
        /\ main = "command" /\ next' = 2
        /\ main' \in {"handler", "done", "lost"}
        /\ ran' = IF Matches = {} THEN ran ELSE commands[Found].handler
    BY <1>5 DEF ProcessCommand
  <2>2. CommandsTyped' /\ TableHolds'
    BY <1>1, <2>1, SameTable
  <2>3. ran = "none"
    BY <2>1 DEF CommandsInv, Ran
  <2>4. CASE line = <<>>
    <3>1. Matches = {}
      BY <2>4 DEF Matches
    <3> QED
      BY <2>1, <2>2, <2>3, <2>4, <3>1 DEF CommandsInv, Ran
  <2>5. CASE line # <<>>
    <3>1. NoneLong => ran' = IF For(line[1]) = {} THEN "none" ELSE FirstFor(line[1])
      BY <1>1, <2>1, <2>3, <2>5, FoundIsFirst
    <3>2. /\ NoneLong' <=> NoneLong
          /\ For(line[1])' = For(line[1]) /\ FirstFor(line[1])' = FirstFor(line[1])
          /\ line' = line
      BY <2>1 DEF NoneLong, For, FirstFor
    <3> QED
      BY <2>1, <2>2, <2>5, <3>1, <3>2 DEF CommandsInv, Ran
  <2> QED
    BY <2>4, <2>5
<1>6. ASSUME UNCHANGED <<commands, registeredCmds, registered, line, ran, before>>,
             next' \in Nat \ {0}, debugFlag' \in BOOLEAN,
             main = "handler", main' \in {"handler", "done", "lost"}
      PROVE  CommandsInv'
  <2>1. CommandsTyped' /\ TableHolds'
    BY <1>1, <1>6, SameTable
  <2>2. /\ NoneLong' <=> NoneLong
        /\ For(line[1])' = For(line[1]) /\ FirstFor(line[1])' = FirstFor(line[1])
    BY <1>6 DEF NoneLong, For, FirstFor
  <2> QED
    BY <1>6, <2>1, <2>2 DEF CommandsInv, Ran
<1>7. CASE PrintOnly
  BY <1>1, <1>6, <1>7 DEF PrintOnly
<1>8. CASE ConfigRound
  <2>1. next' \in Nat \ {0} /\ main' \in {"handler", "done", "lost"}
    BY <1>1, <1>8 DEF ConfigRound, After, LoopOn
  <2> QED
    BY <1>1, <1>6, <1>8, <2>1 DEF ConfigRound
<1>9. CASE DebugRound
  <2>1. next' \in Nat \ {0} /\ main' \in {"handler", "done", "lost"}
    BY <1>1, <1>9 DEF DebugRound, After, LoopOn
  <2>2. debugFlag' \in BOOLEAN
    <3>1. \A value : FlagAfter(value) \in BOOLEAN
      BY DEF FlagAfter
    <3>2. debugFlag' = debugFlag \/ \E value : debugFlag' = FlagAfter(value)
      BY <1>9 DEF DebugRound
    <3> QED
      BY <1>1, <3>1, <3>2
  <2> QED
    BY <1>6, <1>9, <2>1, <2>2 DEF DebugRound
<1>10. CASE Return
  <2>1. /\ UNCHANGED <<commands, registeredCmds, registered, debugFlag>>
        /\ main' = "poll" /\ next' = 1 /\ before' \in BOOLEAN
    BY <1>10 DEF Return
  <2>2. CommandsTyped' /\ TableHolds'
    BY <1>1, <2>1, SameTable
  <2> QED
    BY <2>1, <2>2 DEF CommandsInv, Ran
<1>11. CASE UNCHANGED cmdVars
  BY <1>11 DEF cmdVars, CommandsInv, CommandsTyped, TableHolds, Entry, Ran, NoneLong, For,
               FirstFor
<1> QED
  BY <1>2, <1>3, <1>4, <1>5, <1>7, <1>8, <1>9, <1>10, <1>11 DEF CommandsNext, CommandStep

LEMMA CommandsInvariant == CommandsSpec => []CommandsInv
BY CommandsInitially, CommandsInductive, PTL DEF CommandsSpec

(***************************************************************************)
(* At most one entry past the table is ever written, and the table holds   *)
(* as many commands as were registered.                                    *)
(***************************************************************************)
THEOREM CommandsTypeCorrect == CommandsSpec => []CommandsTypeOK
<1>1. ASSUME CommandsInv PROVE CommandsTypeOK
  <2>1. {debugFlag, before} \subseteq BOOLEAN
    BY <1>1 DEF CommandsInv, CommandsTyped
  <2> QED
    BY <1>1, <2>1 DEF CommandsInv, CommandsTyped, CommandsTypeOK
<1> QED
  BY <1>1, CommandsInvariant, PTL

(***************************************************************************)
(* While no keyword is too long, the line runs the handler that was first  *)
(* registered for its first word, and none when there is none.             *)
(***************************************************************************)
THEOREM LineRunsItsHandler == CommandsSpec => []RunsRegisteredHandler
<1>1. ASSUME CommandsInv PROVE RunsRegisteredHandler
  <2>1. DOMAIN registered = 1 .. Len(registered)
    BY <1>1, LenProperties DEF CommandsInv, CommandsTyped
  <2> QED
    BY <1>1, <2>1 DEF CommandsInv, Ran, NoneLong, FirstFor, RunsRegisteredHandler
<1> QED
  BY <1>1, CommandsInvariant, PTL

-----------------------------------------------------------------------------

(***************************************************************************)
(* The debug command: what the words up to one of them leave of the flag.  *)
(***************************************************************************)
Word == [dash : BOOLEAN, text : STRING]

OnOrOff == {Plain("on"), Plain("off")}

SettingsTo(n) == {k \in 2 .. n : IsValue(k) /\ line[k] \in OnOrOff}

Left(n) == IF SettingsTo(n) = {} THEN before ELSE line[Max(SettingsTo(n))] = Plain("on")

(***************************************************************************)
(* Word n is the next of the loop, and the words before it are done with.  *)
(***************************************************************************)
ReadUpTo(n) ==
  /\ n \in 2 .. Len(line) + 1
  /\ ~IsValue(n)
  /\ \A j \in 2 .. n - 1 : ~Ends(j)
  /\ debugFlag = Left(n - 1)

DebugInv ==
  /\ line \in Seq(Word)
  /\ main = "command" => before = debugFlag /\ ran = "none"
  /\ main = "handler" /\ ran = "debug" => \A n \in Nat : n = next => ReadUpTo(n)
  /\ DebugFlagAsTyped

(***************************************************************************)
(* The words before one have a last that is not a -d, or are all -d.       *)
(***************************************************************************)
LEMMA LastOther ==
  ASSUME NEW n \in Nat, n >= 2
  PROVE  \E j \in 1 .. n - 1 : /\ j = 1 \/ line[j] # Option("d")
                               /\ \A i \in j + 1 .. n - 1 : line[i] = Option("d")
<1> DEFINE T == {m \in 1 .. n - 1 : n - m = 1 \/ line[n - m] # Option("d")}
<1>1. n - 1 \in T /\ T \subseteq Nat
  OBVIOUS
<1>2. PICK m \in T : \A o \in T : m <= o
  <2> HIDE DEF T
  <2> QED
    BY <1>1, LeastOf
<1>3. m \in 1 .. n - 1 /\ (n - m = 1 \/ line[n - m] # Option("d"))
  OBVIOUS
<1>4. ASSUME NEW i \in (n - m) + 1 .. n - 1
      PROVE  line[i] = Option("d")
  <2>1. n - i \in 1 .. n - 1 /\ n - i < m /\ n - (n - i) = i
    BY <1>3
  <2>2. n - i \notin T
    <3> HIDE DEF T
    <3> QED
      BY <1>1, <1>2, <1>3, <2>1
  <2> QED
    BY <2>1, <2>2
<1>5. n - m \in 1 .. n - 1
  BY <1>3
<1> QED
  BY <1>3, <1>4, <1>5

(***************************************************************************)
(* A word is a value just when the one before it is a -d that is none.     *)
(***************************************************************************)
LEMMA ValueAfter ==
  ASSUME NEW n \in Nat, n >= 2
  PROVE  IsValue(n + 1) <=> line[n] = Option("d") /\ ~IsValue(n)
<1>1. ASSUME IsValue(n + 1) PROVE line[n] = Option("d") /\ ~IsValue(n)
  <2>1. PICK j \in 1 .. n - 1 :
          /\ j = 1 \/ line[j] # Option("d")
          /\ \A i \in j + 1 .. n : line[i] = Option("d")
          /\ (n + 1 - j) % 2 = 0
    BY <1>1 DEF IsValue
  <2>2. line[n] = Option("d")
    BY <2>1
  <2>3. ASSUME IsValue(n) PROVE FALSE
    <3>1. PICK m \in 1 .. n - 2 :
            /\ m = 1 \/ line[m] # Option("d")
            /\ \A i \in m + 1 .. n - 1 : line[i] = Option("d")
            /\ (n - m) % 2 = 0
      BY <2>3 DEF IsValue
    <3>2. ~(j < m)
      <4> SUFFICES ASSUME j < m PROVE FALSE
        OBVIOUS
      <4>1. m \in j + 1 .. n /\ m # 1
        BY <2>1, <3>1
      <4> QED
        BY <2>1, <3>1, <4>1
    <3>3. ~(m < j)
      <4> SUFFICES ASSUME m < j PROVE FALSE
        OBVIOUS
      <4>1. j \in m + 1 .. n - 1 /\ j # 1
        BY <2>1, <3>1
      <4> QED
        BY <2>1, <3>1, <4>1
    <3>4. j = m
      BY <3>2, <3>3
    <3>5. (n - j) % 2 = 0 /\ ((n - j) + 1) % 2 = 0 /\ n - j \in Nat
      <4>1. (n - j) + 1 = n + 1 - j
        OBVIOUS
      <4> QED
        BY <2>1, <3>1, <3>4, <4>1
    <3>6. \A d \in Nat : ~(d % 2 = 0 /\ (d + 1) % 2 = 0)
      OBVIOUS
    <3> QED
      BY <3>5, <3>6
  <2> QED
    BY <2>2, <2>3
<1>2. ASSUME line[n] = Option("d"), ~IsValue(n) PROVE IsValue(n + 1)
  <2>1. PICK j \in 1 .. n - 1 : /\ j = 1 \/ line[j] # Option("d")
                                /\ \A i \in j + 1 .. n - 1 : line[i] = Option("d")
    BY LastOther
  <2>2. \A i \in j + 1 .. n : line[i] = Option("d")
    <3>1. \A i \in j + 1 .. n : i = n \/ i \in j + 1 .. n - 1
      BY <2>1
    <3> QED
      BY <1>2, <2>1, <3>1
  <2>3. (n - j) % 2 # 0
    <3> SUFFICES ASSUME (n - j) % 2 = 0 PROVE FALSE
      OBVIOUS
    <3>1. n - j # 1
      OBVIOUS
    <3>2. j \in 1 .. n - 2
      BY <2>1, <3>1
    <3> QED
      BY <1>2, <2>1, <3>2 DEF IsValue
  <2>4. (n + 1 - j) % 2 = 0
    <3>1. \A d \in Nat : d % 2 # 0 => (d + 1) % 2 = 0
      OBVIOUS
    <3>2. n - j \in Nat /\ (n - j) + 1 = n + 1 - j
      BY <2>1
    <3> QED
      BY <2>3, <3>1, <3>2
  <2>5. j \in 1 .. (n + 1) - 2 /\ n = (n + 1) - 1
    BY <2>1
  <2> QED
    BY <2>1, <2>2, <2>4, <2>5 DEF IsValue
<1> QED
  BY <1>1, <1>2

LEMMA MaxIs ==
  ASSUME NEW T, T \subseteq Int, NEW m \in T, \A j \in T : j <= m
  PROVE  Max(T) = m
<1>1. m \in T /\ \A j \in T : m >= j
  OBVIOUS
<1>2. \A k \in T : (\A j \in T : k >= j) => k = m
  OBVIOUS
<1> QED
  BY <1>1, <1>2 DEF Max

LEMMA LeftAfter ==
  ASSUME NEW n \in Nat, n >= 1
  PROVE  Left(n + 1) = IF IsValue(n + 1) /\ line[n + 1] \in OnOrOff
                         THEN line[n + 1] = Plain("on") ELSE Left(n)
<1>1. CASE IsValue(n + 1) /\ line[n + 1] \in OnOrOff
  <2>1. n + 1 \in SettingsTo(n + 1) /\ SettingsTo(n + 1) \subseteq Int
    BY <1>1 DEF SettingsTo
  <2>2. \A j \in SettingsTo(n + 1) : j <= n + 1
    BY DEF SettingsTo
  <2>3. Max(SettingsTo(n + 1)) = n + 1
    BY <2>1, <2>2, MaxIs
  <2> QED
    BY <1>1, <2>1, <2>3 DEF Left
<1>2. CASE ~(IsValue(n + 1) /\ line[n + 1] \in OnOrOff)
  <2>1. SettingsTo(n + 1) = SettingsTo(n)
    <3>1. 2 .. n + 1 = (2 .. n) \cup {n + 1}
      OBVIOUS
    <3> QED
      BY <1>2, <3>1 DEF SettingsTo
  <2> QED
    BY <1>2, <2>1 DEF Left
<1> QED
  BY <1>1, <1>2

(***************************************************************************)
(* What is left of the flag when the command stops at word n.              *)
(***************************************************************************)
LEMMA StopsAt ==
  ASSUME line \in Seq(Word), ReadUpTo(next), next \in Nat, next = Len(line) + 1 \/ Ends(next)
  PROVE  debugFlag = IF Settings = {} THEN before ELSE line[Max(Settings)] = Plain("on")
<1>1. PICK n \in Nat, len \in Nat : n = next /\ len = Len(line) /\ n \in 2 .. len + 1
  BY LenProperties DEF ReadUpTo
<1>2. Settings = SettingsTo(n - 1)
  <2>1. ASSUME NEW k \in 2 .. len, \A j \in 2 .. k : ~Ends(j)
        PROVE  k \in 2 .. n - 1
    <3>1. ~(n \in 2 .. k) \/ n = len + 1
      BY <1>1, <2>1
    <3> QED
      BY <1>1, <3>1
  <2>2. ASSUME NEW k \in 2 .. n - 1
        PROVE  k \in 2 .. len /\ \A j \in 2 .. k : ~Ends(j)
    BY <1>1 DEF ReadUpTo
  <2> QED
    BY <1>1, <2>1, <2>2 DEF Settings, SettingsTo, OnOrOff
<1> QED
  BY <1>1, <1>2 DEF ReadUpTo, Left

LEMMA SameLine ==
  ASSUME line' = line, before' = before
  PROVE  /\ \A k : (IsValue(k)' <=> IsValue(k)) /\ (Ends(k)' <=> Ends(k)) /\ Left(k)' = Left(k)
         /\ Settings' = Settings /\ (LacksValue' <=> LacksValue)
<1>1. \A k : IsValue(k)' <=> IsValue(k)
  BY DEF IsValue
<1>2. \A k : Ends(k)' <=> Ends(k)
  BY <1>1 DEF Ends
<1>3. \A k : SettingsTo(k)' = SettingsTo(k)
  BY <1>1 DEF SettingsTo
<1>4. \A k : Left(k)' = Left(k)
  BY <1>3 DEF Left
<1>5. Settings' = Settings
  BY <1>1, <1>2 DEF Settings
<1>6. LacksValue' <=> LacksValue
  BY <1>1, <1>2 DEF LacksValue, IsValue
<1> QED
  BY <1>1, <1>2, <1>4, <1>5, <1>6

LEMMA DebugRoundKeeps ==
  ASSUME CommandsTyped, DebugInv, DebugRound
  PROVE  DebugInv'
<1>1. /\ main = "handler" /\ ran = "debug" /\ ran' = ran /\ line' = line /\ before' = before
      /\ line \in Seq(Word) /\ debugFlag \in BOOLEAN
  BY DEF DebugRound, CommandsTyped, DebugInv
<1>2. PICK n \in Nat, len \in Nat : n = next /\ len = Len(line)
  BY <1>1, LenProperties DEF CommandsTyped
<1>3. ReadUpTo(n) /\ n \in 2 .. len + 1
  BY <1>1, <1>2 DEF DebugInv, ReadUpTo
<1>4. PICK word \in Words(n) :
        \/ word.dash /\ word.text \notin {"d", "v"} /\ main' = "done" /\ debugFlag' = debugFlag
        \/ /\ word.dash /\ word.text = "d"
           /\ next' = n + 2 /\ main' = IF n + 1 <= len THEN "handler" ELSE "done"
           /\ \E value \in Values(n + 1) : debugFlag' = FlagAfter(value)
        \/ main' = "lost"
        \/ /\ ~word.dash \/ word.text = "v"
           /\ next' = n + 1 /\ main' = IF n <= len THEN "handler" ELSE "done"
           /\ debugFlag' = debugFlag
  <2>1. PICK word \in Words(n) : \E argument \in {ParseCmdArgs(word, {"d", "v"})} :
          \/ word.dash /\ argument = NUL /\ main' = "done" /\ debugFlag' = debugFlag
          \/ /\ word.dash /\ argument = "d"
             /\ next' = After(After(n))
             /\ \E value \in Values(n + 1) :
                  IF value \in Overlong THEN main' = "lost" /\ UNCHANGED debugFlag
                                       ELSE LoopOn(n + 1) /\ debugFlag' = FlagAfter(value)
          \/ /\ ~word.dash \/ argument = "v"
             /\ next' = After(n) /\ LoopOn(n) /\ debugFlag' = debugFlag
    BY <1>2 DEF DebugRound
  <2> DEFINE argument == ParseCmdArgs(word, {"d", "v"})
  <2>2. /\ argument = NUL => word.text \notin {"d", "v"}
        /\ argument = "d" => word.text = "d"
        /\ argument = "v" => word.text = "v"
    BY DEF ParseCmdArgs, NUL
  <2>3. After(n) = n + 1 /\ After(After(n)) = n + 2
    BY DEF After
  <2> QED
    BY <1>2, <2>1, <2>2, <2>3 DEF LoopOn
<1>5. n <= len => word = line[n] /\ word \in Word
  BY <1>1, <1>2, <1>3, ElementOfSeq DEF Words
<1>6. n = len + 1 => word.text \notin {"d", "v"}
  <2>1. n = len + 1 => Words(n) = AtNull
    BY <1>2 DEF Words
  <2>2. \A text : Plain(text).text = text /\ Option(text).text = text
    BY DEF Plain, Option
  <2>3. \A w \in AtNull : w.text = "" \/ w.text = "?"
    BY <2>2 DEF AtNull
  <2>4. "" # "d" /\ "" # "v" /\ "?" # "d" /\ "?" # "v"
    OBVIOUS
  <2> QED
    BY <2>1, <2>3, <2>4, Zenon
<1>7. ASSUME main' = "done", n = len + 1 \/ Ends(n), debugFlag' = debugFlag
      PROVE  DebugInv'
  <2>1. debugFlag = IF Settings = {} THEN before ELSE line[Max(Settings)] = Plain("on")
    BY <1>1, <1>2, <1>3, <1>7, StopsAt
  <2>2. DebugFlagAsTyped'
    BY <1>1, <1>7, <2>1, SameLine DEF DebugFlagAsTyped
  <2> QED
    BY <1>1, <1>7, <2>2 DEF DebugInv
<1>8. ASSUME NEW m \in Nat, main' = "handler", next' = m, m \in 2 .. len + 1, ~IsValue(m),
             \A j \in 2 .. m - 1 : ~Ends(j), debugFlag' = Left(m - 1)
      PROVE  DebugInv'
  <2>1. ReadUpTo(m)'
    BY <1>1, <1>2, <1>8, SameLine DEF ReadUpTo
  <2>2. \A k \in Nat : k = next' => ReadUpTo(k)'
    BY <1>8, <2>1
  <2> QED
    BY <1>1, <1>8, <2>2 DEF DebugInv, DebugFlagAsTyped
<1>9. ~IsValue(n) /\ (\A j \in 2 .. n - 1 : ~Ends(j)) /\ debugFlag = Left(n - 1)
  BY <1>3 DEF ReadUpTo
<1>10. CASE main' = "lost"
  BY <1>1, <1>10 DEF DebugInv, DebugFlagAsTyped
<1>11. CASE word.dash /\ word.text \notin {"d", "v"} /\ main' = "done" /\ debugFlag' = debugFlag
  <2>1. n = len + 1 \/ Ends(n)
    BY <1>3, <1>5, <1>9, <1>11 DEF Ends
  <2> QED
    BY <1>7, <1>11, <2>1
<1>12. CASE /\ ~word.dash \/ word.text = "v"
            /\ next' = n + 1 /\ main' = IF n <= len THEN "handler" ELSE "done"
            /\ debugFlag' = debugFlag
  <2>1. CASE n = len + 1
    <3>1. main' = "done"
      BY <1>2, <1>12, <2>1
    <3> QED
      BY <1>7, <1>12, <2>1, <3>1
  <2>2. CASE n <= len
    <3>1. line[n] = word
      BY <1>5, <2>2
    <3>2. line[n] # Option("d") /\ ~Ends(n)
      BY <1>12, <3>1 DEF Option, Ends
    <3>3. ~IsValue(n + 1)
      BY <1>3, <3>2, ValueAfter
    <3>4. Left(n) = Left(n - 1)
      <4>1. PICK m \in Nat : m + 1 = n /\ m >= 1 /\ m = n - 1
        BY <1>3
      <4> QED
        BY <1>9, <4>1, LeftAfter
    <3>5. \A j \in 2 .. (n + 1) - 1 : ~Ends(j)
      BY <1>2, <1>9, <3>2
    <3>6. n + 1 \in Nat /\ n + 1 \in 2 .. len + 1 /\ (n + 1) - 1 = n
      BY <1>2, <1>3, <2>2
    <3> QED
      BY <1>8, <1>9, <1>12, <2>2, <3>3, <3>4, <3>5, <3>6
  <2> QED
    BY <1>2, <1>3, <2>1, <2>2
<1>13. CASE /\ word.dash /\ word.text = "d"
            /\ next' = n + 2 /\ main' = IF n + 1 <= len THEN "handler" ELSE "done"
            /\ \E value \in Values(n + 1) : debugFlag' = FlagAfter(value)
  <2>1. n <= len /\ line[n] = word /\ word \in Word
    BY <1>2, <1>3, <1>5, <1>6, <1>13
  <2>2. line[n] = Option("d")
    BY <1>13, <2>1 DEF Word, Option
  <2>3. IsValue(n + 1) /\ ~IsValue(n + 2)
    <3>1. IsValue(n + 1)
      BY <1>3, <1>9, <2>2, ValueAfter
    <3>2. n + 1 \in Nat /\ n + 1 >= 2 /\ (n + 1) + 1 = n + 2
      BY <1>2, <1>3
    <3>3. IsValue((n + 1) + 1) <=> line[n + 1] = Option("d") /\ ~IsValue(n + 1)
      BY <3>2, ValueAfter
    <3> QED
      BY <3>1, <3>2, <3>3
  <2>4. ~Ends(n) /\ ~Ends(n + 1)
    BY <1>13, <2>1, <2>3 DEF Ends
  <2>5. \A j \in 2 .. n + 1 : ~Ends(j)
    <3>1. \A j \in 2 .. n + 1 : j = n + 1 \/ j = n \/ j \in 2 .. n - 1
      OBVIOUS
    <3> QED
      BY <1>9, <2>4, <3>1
  <2>6. CASE n = len
    <3>1. main' = "done"
      BY <1>2, <1>13, <2>6
    <3>2. LacksValue
      BY <1>2, <1>9, <2>2, <2>5, <2>6 DEF LacksValue
    <3>3. DebugFlagAsTyped'
      BY <1>1, <3>2, SameLine DEF DebugFlagAsTyped
    <3> QED
      BY <1>1, <3>1, <3>3 DEF DebugInv
  <2>7. CASE n + 1 <= len
    <3>1. debugFlag' = FlagAfter(line[n + 1]) /\ main' = "handler"
      BY <1>2, <1>13, <2>7 DEF Values
    <3>2. Left(n) = debugFlag
      <4>1. PICK m \in Nat : m + 1 = n /\ m >= 1 /\ m = n - 1
        BY <1>3
      <4> QED
        BY <1>9, <4>1, LeftAfter
    <3>3. Left(n + 1) = IF line[n + 1] \in OnOrOff THEN line[n + 1] = Plain("on") ELSE debugFlag
      <4>1. n \in Nat /\ n >= 1
        BY <1>3
      <4> QED
        BY <2>3, <3>2, <4>1, LeftAfter
    <3>4. debugFlag' = Left(n + 1)
      <4>1. Plain("on") # Plain("off")
        BY DEF Plain
      <4> HIDE DEF Left
      <4> QED
        BY <1>1, <3>1, <3>3, <4>1, Zenon DEF FlagAfter, OnOrOff
    <3>5. n + 2 \in Nat /\ n + 2 \in 2 .. len + 1 /\ (n + 2) - 1 = n + 1
      BY <1>2, <1>3, <2>7
    <3> QED
      BY <1>8, <1>13, <2>3, <2>5, <3>1, <3>4, <3>5
  <2> QED
    BY <1>2, <2>1, <2>6, <2>7
<1> QED
  BY <1>4, <1>10, <1>11, <1>12, <1>13

LEMMA DebugInductive == CommandsInv /\ DebugInv /\ [CommandsNext]_cmdVars => DebugInv'
<1> SUFFICES ASSUME CommandsInv, DebugInv, [CommandsNext]_cmdVars PROVE DebugInv'
  OBVIOUS
<1>1. line \in Seq(Word) /\ CommandsTyped
  BY DEF DebugInv, CommandsInv
<1>2. CASE CliInit \/ ApplicationRegisters
  <2>1. main' \in {"init", "poll"} /\ line' = line
    BY <1>2 DEF CliInit, ApplicationRegisters
  <2> QED
    BY <1>1, <2>1 DEF DebugInv, DebugFlagAsTyped
<1>3. CASE TakeLine
  <2>1. line' \in Seq(Word)
    BY <1>3, CommandsAssumption DEF TakeLine, Word
  <2> QED
    BY <1>3, <2>1 DEF TakeLine, DebugInv, DebugFlagAsTyped
<1>4. CASE ProcessCommand
  <2>1. /\ main = "command" /\ next' = 2 /\ UNCHANGED <<line, before, debugFlag>>
        /\ before = debugFlag /\ ran = "none"
    BY <1>4 DEF ProcessCommand, DebugInv
  <2>2. main' \in {"done", "lost", "handler"} /\ (main' = "done" => ran' = ran)
        /\ (main' = "handler" => Matches # {})
    BY <1>4 DEF ProcessCommand
  <2>3. ASSUME main' = "handler"
        PROVE  ReadUpTo(2)'
    <3>1. line # <<>>
      BY <2>2, <2>3 DEF Matches
    <3>2. Len(line) \in Nat /\ Len(line) # 0
      BY <1>1, <3>1, EmptySeq, LenProperties
    <3>3. ~IsValue(2)
      BY DEF IsValue
    <3>4. Left(1) = before
      BY DEF Left, SettingsTo
    <3>5. \A j \in 2 .. 2 - 1 : FALSE
      OBVIOUS
    <3>6. 2 \in 2 .. Len(line) + 1 /\ 2 - 1 = 1
      BY <3>2
    <3> QED
      BY <2>1, <3>3, <3>4, <3>5, <3>6, SameLine DEF ReadUpTo
  <2>4. main' = "handler" => \A n \in Nat : n = next' => ReadUpTo(n)'
    BY <2>1, <2>3
  <2> QED
    BY <1>1, <2>1, <2>2, <2>4 DEF DebugInv, DebugFlagAsTyped
<1>5. CASE PrintOnly \/ ConfigRound
  <2>1. ran' # "debug" /\ main' \in {"handler", "done", "lost"} /\ line' = line
    BY <1>5 DEF PrintOnly, ConfigRound, LoopOn
  <2> QED
    BY <1>1, <2>1 DEF DebugInv, DebugFlagAsTyped
<1>6. CASE DebugRound
  BY <1>1, <1>6, DebugRoundKeeps
<1>7. CASE Return
  <2>1. <<>> \in Seq(Word)
    BY EmptySeq
  <2> QED
    BY <1>7, <2>1 DEF Return, DebugInv, DebugFlagAsTyped
<1>8. CASE UNCHANGED cmdVars
  <2>1. line' = line /\ before' = before /\ debugFlag' = debugFlag /\ next' = next
        /\ main' = main /\ ran' = ran
    BY <1>8 DEF cmdVars
  <2>2. \A n : ReadUpTo(n)' <=> ReadUpTo(n)
    BY <2>1, SameLine DEF ReadUpTo
  <2>3. DebugFlagAsTyped' <=> DebugFlagAsTyped
    BY <2>1, SameLine DEF DebugFlagAsTyped
  <2> QED
    BY <2>1, <2>2, <2>3 DEF DebugInv
<1> QED
  BY <1>2, <1>3, <1>4, <1>5, <1>6, <1>7, <1>8 DEF CommandsNext, CommandStep

(***************************************************************************)
(* The debug command, for lines of every length: the loop takes the words  *)
(* as a reader of the line does, and when it returns, KFLAG_DEBUG is what  *)
(* the last value of a -d says, unless the line ends in a -d without one.  *)
(* It does not return when a value is longer than ds.                      *)
(***************************************************************************)
THEOREM DebugDoesAsTyped == CommandsSpec => []DebugFlagAsTyped
<1>1. CommandsInit => DebugInv
  <2>1. <<>> \in Seq(Word)
    BY EmptySeq
  <2> QED
    BY <2>1 DEF CommandsInit, DebugInv, DebugFlagAsTyped
<1>2. DebugInv => DebugFlagAsTyped
  BY DEF DebugInv
<1> QED
  BY <1>1, <1>2, DebugInductive, CommandsInvariant, PTL DEF CommandsSpec
=============================================================================
