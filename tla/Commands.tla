------------------------------ MODULE Commands ------------------------------
(***************************************************************************)
(* The commands of the shell (src/kernel-v1/commands.c): cli_init and the  *)
(* application fill a table of keywords and handlers; processCommand looks *)
(* up the first word of the line and calls the handler; config and debug   *)
(* read the other words with strtok.  The line stands still meanwhile (Cli *)
(* shows that) and nothing else takes part in it.                          *)
(*                                                                         *)
(* A word is a dash or none and the rest of it, without blanks.  strtok    *)
(* returns NULL after the last word, and the loops of config and debug     *)
(* look at what NULL points to before they look whether it is NULL:        *)
(* address 0 is a register of the processor that may hold anything, and    *)
(* address 1 one that holds 0, so there seems to be a word, empty, or of   *)
(* one character at most.                                                  *)
(*                                                                         *)
(* config and debug also write words to the stack, past the variables that *)
(* are to hold them: the source does not say what becomes of the program,  *)
(* and it is "lost".                                                       *)
(*                                                                         *)
(* registered, ran and before only record.                                 *)
(***************************************************************************)
EXTENDS Integers, Sequences, FiniteSetsExt

CONSTANTS
  CMD_COMMAND_AMOUNT,  \* entries of the table (9 in the code)
  BuiltIn,             \* keywords that cli_init registers, in order
  Application,         \* keywords and handlers that the application may register
  LongKeyword,         \* keywords of CMD_MAX_WORD_SIZE characters or one more
  Overlong,            \* words of 5 characters or more, which ds[5] does not hold
  Number,              \* words that start with a decimal number
  Line                 \* lines that may be typed: sequences of words

VARIABLES
  commands,            \* the table, and the entry past it
  registeredCmds,
  main,                \* what the main program does
  line,                \* the words of the line
  next,                \* where strtok goes on
  debugFlag,           \* KFLAG_DEBUG
  registered,          \* commands as they were given to registerCommand
  ran,                 \* the handler that was called for the line
  before               \* KFLAG_DEBUG when it was called

cmdVars == <<commands, registeredCmds, main, line, next, debugFlag, registered, ran, before>>

Plain(text) == [dash |-> FALSE, text |-> text]

Option(letter) == [dash |-> TRUE, text |-> letter]

AtNull == {Plain(""), Plain("?"), Option("")}

ASSUME CommandsAssumption ==
  /\ CMD_COMMAND_AMOUNT \in Nat
  /\ BuiltIn \in Seq(STRING) \ {<<>>} /\ Len(BuiltIn) <= CMD_COMMAND_AMOUNT
  /\ \A k \in DOMAIN BuiltIn : BuiltIn[k] \notin LongKeyword
  /\ ({Plain("on"), Plain("off")} \cup AtNull) \cap Overlong = {}
  /\ AtNull \cap Number = {}
  /\ Application \subseteq [keyword : STRING, handler : STRING]
  /\ Line \subseteq Seq([dash : BOOLEAN, text : STRING])

NoCommand == [keyword |-> "", handler |-> "NULL"]

Garbled == "garbled"

NUL == "NUL"

-----------------------------------------------------------------------------

CommandsInit ==
  /\ commands = [i \in 0 .. CMD_COMMAND_AMOUNT |-> NoCommand]
  /\ registeredCmds = 0
  /\ main = "init"
  /\ line = <<>>
  /\ next = 1
  /\ debugFlag = FALSE
  /\ registered = <<>>
  /\ ran = "none"
  /\ before = FALSE

Stray == registeredCmds > CMD_COMMAND_AMOUNT

(***************************************************************************)
(* The keyword is copied after the handler is stored, and one that is too  *)
(* long runs into it.                                                      *)
(***************************************************************************)
Entry(keyword, handler) ==
  [keyword |-> keyword, handler |-> IF keyword \in LongKeyword THEN Garbled ELSE handler]

(***************************************************************************)
(* A slip: a full table is not looked for.                                 *)
(***************************************************************************)
RegisterCommandAnyway(keyword, handler) ==
  /\ commands' = [i \in 0 .. registeredCmds |->
                    IF i = registeredCmds THEN Entry(keyword, handler) ELSE commands[i]]
  /\ registeredCmds' = registeredCmds + 1
  /\ registered' = Append(registered, [keyword |-> keyword, handler |-> handler])

(***************************************************************************)
(* One command more than the table has entries is let in.                  *)
(***************************************************************************)
RegisterCommand(keyword, handler) ==
  /\ registeredCmds < CMD_COMMAND_AMOUNT + 1
  /\ commands' = [commands EXCEPT ![registeredCmds] = Entry(keyword, handler)]
  /\ registeredCmds' = registeredCmds + 1
  /\ registered' = Append(registered, [keyword |-> keyword, handler |-> handler])

CliInit ==
  /\ main = "init"
  /\ RegisterCommand(BuiltIn[registeredCmds + 1], BuiltIn[registeredCmds + 1])
  /\ main' = IF registeredCmds' = Len(BuiltIn) THEN "poll" ELSE "init"
  /\ UNCHANGED <<line, next, debugFlag, ran, before>>

ApplicationRegisters ==
  /\ main = "poll"
  /\ \E c \in Application : RegisterCommand(c.keyword, c.handler)
  /\ UNCHANGED <<main, line, next, debugFlag, ran, before>>

(***************************************************************************)
(* A line has come in.  What the entry past the table does to the program  *)
(* is left out.                                                            *)
(***************************************************************************)
TakeLine ==
  /\ main = "poll" /\ ~Stray
  /\ main' = "command"
  /\ line' \in Line
  /\ next' = 1
  /\ ran' = "none"
  /\ before' = debugFlag
  /\ UNCHANGED <<commands, registeredCmds, debugFlag, registered>>

-----------------------------------------------------------------------------

Matches == {i \in 0 .. registeredCmds - 1 :
              line # <<>> /\ Plain(commands[i].keyword) = line[1]}

(***************************************************************************)
(* A slip: the search goes on after a match.                               *)
(***************************************************************************)
FoundLast == Max(Matches)

Found == Min(Matches)

(***************************************************************************)
(* An empty line and an unknown command only print.                        *)
(***************************************************************************)
ProcessCommand ==
  /\ main = "command"
  /\ next' = 2
  /\ IF Matches = {} THEN main' = "done" /\ UNCHANGED ran
     ELSE /\ ran' = commands[Found].handler
          /\ main' = IF ran' = Garbled THEN "lost" ELSE "handler"
  /\ UNCHANGED <<commands, registeredCmds, line, debugFlag, registered, before>>

(***************************************************************************)
(* reboot, datetime, clear, sysinfo, help and dickbutt only print; what a  *)
(* command of the application does is its own.                             *)
(***************************************************************************)
PrintOnly ==
  /\ main = "handler" /\ ran \notin {"config", "debug"}
  /\ main' = "done"
  /\ UNCHANGED <<commands, registeredCmds, line, next, debugFlag, registered, ran, before>>

(***************************************************************************)
(* strtok(NULL, " ") in place k of the line: the word there, or what NULL  *)
(* points to.                                                              *)
(***************************************************************************)
Words(k) == IF k <= Len(line) THEN {line[k]} ELSE AtNull

(***************************************************************************)
(* A slip: strtok is given the buffer again.                               *)
(***************************************************************************)
AfterFirst(k) == 2

After(k) == k + 1

ParseCmdArgs(word, arglist) == IF word.text \in arglist THEN word.text ELSE NUL

(***************************************************************************)
(* The loop goes on until strtok has returned NULL.                        *)
(***************************************************************************)
LoopOn(last) == main' = IF last <= Len(line) THEN "handler" ELSE "done"

(***************************************************************************)
(* -a reads the word after it, and a number there is written as an int to  *)
(* a variable of one byte.  What NULL points to may be a digit.            *)
(***************************************************************************)
MayBeNumber(word) == word \in Number \cup {Plain("?")}

MayBeOther(word) == word \notin Number

(***************************************************************************)
(* One round of config's loop.  -b and -c only print; d, e and f are       *)
(* letters of the list that no case handles.                               *)
(***************************************************************************)
ConfigRound ==
  /\ main = "handler" /\ ran = "config"
  /\ \E word \in Words(next) :
     \E argument \in {ParseCmdArgs(word, {"a", "b", "c", "d", "e", "f"})} :
       \/ /\ word.dash /\ argument = NUL
          /\ main' = "done"
          /\ UNCHANGED next
       \/ /\ word.dash /\ argument = "a"
          /\ next' = After(After(next))
          /\ \E value \in Words(next + 1) :
               \/ MayBeNumber(value) /\ main' = "lost"
               \/ MayBeOther(value) /\ LoopOn(next + 1)
       \/ /\ ~word.dash \/ argument \notin {NUL, "a"}
          /\ next' = After(next)
          /\ LoopOn(next)
  /\ UNCHANGED <<commands, registeredCmds, line, debugFlag, registered, ran, before>>

(***************************************************************************)
(* The words that ds may hold after sscanf: the next one; after the last,  *)
(* the one NULL points to, or whatever was in ds before when there is      *)
(* none, since the end of the input is not a result of 0.                  *)
(***************************************************************************)
Values(k) == IF k <= Len(line) THEN {line[k]} ELSE {Plain("on"), Plain("off")} \cup AtNull

FlagAfter(value) == value = Plain("on") \/ (debugFlag /\ value # Plain("off"))

(***************************************************************************)
(* A slip: the value is left for the next round.                           *)
(***************************************************************************)
DebugRoundPeeks ==
  /\ main = "handler" /\ ran = "debug"
  /\ \E word \in Words(next) : \E argument \in {ParseCmdArgs(word, {"d", "v"})} :
       \/ /\ word.dash /\ argument = NUL
          /\ main' = "done"
          /\ UNCHANGED <<next, debugFlag>>
       \/ /\ ~word.dash \/ argument # NUL
          /\ next' = After(next)
          /\ LoopOn(next)
          /\ IF word.dash /\ argument = "d"
               THEN \E value \in Values(next + 1) : debugFlag' = FlagAfter(value)
               ELSE UNCHANGED debugFlag
  /\ UNCHANGED <<commands, registeredCmds, line, registered, ran, before>>

(***************************************************************************)
(* One round of debug's loop.  The word after -d is copied to ds, however  *)
(* long it is.  -v compares a ds that was never written and only prints.   *)
(***************************************************************************)
DebugRound ==
  /\ main = "handler" /\ ran = "debug"
  /\ \E word \in Words(next) : \E argument \in {ParseCmdArgs(word, {"d", "v"})} :
       \/ /\ word.dash /\ argument = NUL
          /\ main' = "done"
          /\ UNCHANGED <<next, debugFlag>>
       \/ /\ word.dash /\ argument = "d"
          /\ next' = After(After(next))
          /\ \E value \in Values(next + 1) :
               IF value \in Overlong THEN main' = "lost" /\ UNCHANGED debugFlag
                                    ELSE LoopOn(next + 1) /\ debugFlag' = FlagAfter(value)
       \/ /\ ~word.dash \/ argument = "v"
          /\ next' = After(next)
          /\ LoopOn(next)
          /\ UNCHANGED debugFlag
  /\ UNCHANGED <<commands, registeredCmds, line, registered, ran, before>>

(***************************************************************************)
(* processCommand clears the buffer when the handler has returned.         *)
(***************************************************************************)
Return ==
  /\ main = "done"
  /\ main' = "poll"
  /\ line' = <<>>
  /\ next' = 1
  /\ ran' = "none"
  /\ before' = FALSE
  /\ UNCHANGED <<commands, registeredCmds, debugFlag, registered>>

CommandStep == ProcessCommand \/ PrintOnly \/ ConfigRound \/ DebugRound \/ Return

CommandsNext == CliInit \/ ApplicationRegisters \/ TakeLine \/ CommandStep

(***************************************************************************)
(* The main program goes on.                                               *)
(***************************************************************************)
CommandsSpec == CommandsInit /\ [][CommandsNext]_cmdVars /\ WF_cmdVars(CommandStep)

-----------------------------------------------------------------------------

CommandsTypeOK ==
  /\ registeredCmds \in 0 .. CMD_COMMAND_AMOUNT + 1
  /\ Len(registered) = registeredCmds
  /\ DOMAIN commands = 0 .. CMD_COMMAND_AMOUNT
  /\ main \in {"init", "poll", "command", "handler", "done", "lost"}
  /\ next \in Nat \ {0}
  /\ {debugFlag, before} \subseteq BOOLEAN

(***************************************************************************)
(* As long as no keyword is too long and the table does not overflow, the  *)
(* handler that runs is the one first registered for the first word of the *)
(* line, and none runs for a word that was not registered.                 *)
(***************************************************************************)
For(word) == {k \in DOMAIN registered : Plain(registered[k].keyword) = word}

RunsRegisteredHandler ==
  /\ main \in {"handler", "done", "lost"}
  /\ \A k \in DOMAIN registered : registered[k].keyword \notin LongKeyword
  => ran = IF line = <<>> \/ For(line[1]) = {} THEN "none"
           ELSE registered[Min(For(line[1]))].handler

(***************************************************************************)
(* The words after "debug" as a reader of the line takes them: a word is   *)
(* the value of the -d before it, unless that one is a value itself; so it *)
(* is one when the words right before it are -d and odd in number.  An     *)
(* option that is neither known nor a value ends the command.              *)
(***************************************************************************)
IsValue(k) ==
  \E j \in 1 .. k - 2 :
    /\ j = 1 \/ line[j] # Option("d")
    /\ \A i \in j + 1 .. k - 1 : line[i] = Option("d")
    /\ (k - j) % 2 = 0

Ends(k) == ~IsValue(k) /\ line[k].dash /\ line[k].text \notin {"d", "v"}

Settings == {k \in 2 .. Len(line) : /\ IsValue(k)
                                    /\ line[k] \in {Plain("on"), Plain("off")}
                                    /\ \A j \in 2 .. k : ~Ends(j)}

LacksValue ==
  /\ line[Len(line)] = Option("d") /\ ~IsValue(Len(line))
  /\ \A k \in 2 .. Len(line) : ~Ends(k)

(***************************************************************************)
(* The debug command leaves KFLAG_DEBUG as the last value of a -d on the   *)
(* line says, and as it was without one, if it returns; only a -d at the   *)
(* end of the line, for which it compares what it did not read, may set it *)
(* either way.                                                             *)
(***************************************************************************)
DebugFlagAsTyped ==
  main = "done" /\ ran = "debug" /\ ~LacksValue
    => debugFlag = IF Settings = {} THEN before ELSE line[Max(Settings)] = Plain("on")

(***************************************************************************)
(* What takes the program away from the shell: a keyword that ran into its *)
(* handler (commands.c:56), a value of debug -d that ds does not hold      *)
(* (commands.c:140), and config -a with a number, or with nothing after it *)
(* (commands.c:96).                                                        *)
(***************************************************************************)
Overwritten ==
  \/ ran = Garbled
  \/ /\ ran = "debug"
     /\ \E k \in 2 .. Len(line) :
          IsValue(k) /\ line[k] \in Overlong /\ \A j \in 2 .. k : ~Ends(j)
  \/ /\ ran = "config"
     /\ \E k \in 2 .. Len(line) :
          line[k] = Option("a") /\ (k = Len(line) \/ line[k + 1] \in Number)

(***************************************************************************)
(* Every command returns, although its loop looks at what NULL points to,  *)
(* unless what was typed or registered overwrites memory.                  *)
(***************************************************************************)
CommandReturns ==
  main \in {"command", "handler", "done"} ~> (main = "poll" \/ (main = "lost" /\ Overwritten))

(***************************************************************************)
(* The help text (commands.c:195) says "reboot - reboots the device": the  *)
(* shell does not go on after it.                                          *)
(***************************************************************************)
RebootReboots == ran = "reboot" => main # "done"
=============================================================================
