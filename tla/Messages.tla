------------------------------ MODULE Messages ------------------------------
(***************************************************************************)
(* What the firmware says: report.c composes it, the commands of system.c  *)
(* and the main loop of protocol.c decide when.  A host that counts, like  *)
(* Grbl.read, takes "ok" and every message with "error:" in it for the     *)
(* answer to the oldest line it has sent; everything else it skips.  So    *)
(* each line must be answered once, whatever is printed on the way.        *)
(*                                                                         *)
(* A message is a line of text as the tokens it is printed from.  What is  *)
(* printed is told apart as far as counting does; motions take no time.    *)
(***************************************************************************)
EXTENDS Integers, Sequences, FiniteSets, SequencesExt

CONSTANTS
  SETTING_INDEX_NCOORD,  \* the last coordinate record
  Sent,                  \* the lines a host may send: <<kind, text>>
  StoredLines,           \* texts that startup lines may be stored with
  StoredInfos,           \* texts that the build info may be stored with
  MaxSent,               \* bound: lines sent
  MaxAborts              \* bound: resets by a character, a button, an alarm

Coords == 0 .. SETTING_INDEX_NCOORD
StartupLines == 0 .. 1                         \* N_STARTUP_LINE
EepromRecords == ({"coord"} \X Coords) \cup ({"line"} \X StartupLines)
           \cup {<<"info", 0>>, <<"settings", 0>>}

ASSUME MessagesAssumption ==
  /\ SETTING_INDEX_NCOORD \in 0 .. 255 /\ MaxSent \in Nat /\ MaxAborts \in Nat
  /\ Sent \subseteq STRING \X STRING
  /\ "error:" \notin StoredLines \cup StoredInfos    \* stored in capitals
  /\ \A n \in 0 .. 255 : ToString(n) # "error:"

VARIABLES
  board,    \* sys.state, whether a reset is due, whether the parser has a
            \* feed rate, what is stored and which records cannot be read
  lines,    \* the lines in the receive ring
  replies,  \* the messages on their way to the host
  client,   \* isConnected, the size of grblBfr, and whether read has thrown
  tally     \* history: lines a reset dropped, answers to no line; bounds

messageVars == <<board, lines, replies, client, tally>>

STATUS_OK == 0
STATUS_SETTING_DISABLED == 5
STATUS_SETTING_READ_FAIL == 7
STATUS_IDLE_ERROR == 8
STATUS_SYSTEM_GC_LOCK == 9
STATUS_OVERFLOW == 11
STATUS_GCODE_UNSUPPORTED_COMMAND == 20
STATUS_GCODE_UNDEFINED_FEED_RATE == 22
ALARM == [hard_limit |-> 1, abort_cycle |-> 3, homing_fail_pulloff |-> 8]

-----------------------------------------------------------------------------
(* report.c: what is printed. *)
print_uint8_base10(n) == ToString(n)

report_status_message(status_code) ==
  IF status_code = STATUS_OK THEN <<"ok">>
  ELSE <<"error:", print_uint8_base10(status_code)>>

report_alarm_message(alarm_code) ==
  <<"ALARM:", print_uint8_base10(alarm_code)>>

report_feedback_message(message) == <<"[MSG:", message, "]">>

report_init_message == <<"Grbl 1.1f ['$' for help]">>
report_grbl_help == <<"[HLP:", "]">>
report_grbl_settings == <<"$0=", "10">>        \* and so on
report_gcode_modes == <<"[GC:", "]">>
report_probe_parameters == <<"[PRB:", "]">>

report_startup_line(n, text) == <<"$N", print_uint8_base10(n), "=", text>>

(* The status stands on the line of its startup line, so that a host does
   not take the "ok" for an answer. *)
report_execute_startup_message(text, status_code) ==
  <<">", text, ":">> \o report_status_message(status_code)

report_build_info(text) ==
  << <<"[VER:", text, "]">>, <<"[OPT:", "]">> >>

ReadFail == report_status_message(STATUS_SETTING_READ_FAIL)

(* report_ngc_parameters ends at a record it cannot read, which reading has
   repaired. *)
NgcParameters(unreadable) ==
  LET failing == {c \in Coords : <<"coord", c>> \in unreadable}
      Line(c) == <<"[G", print_uint8_base10(c), ":", "]">>
      Listed(n) == [i \in 1 .. n |-> Line(i - 1)]
  IN IF failing = {}
     THEN Listed(SETTING_INDEX_NCOORD + 1)
          \o << <<"[G92:", "]">>, <<"[TLO:", "]">>, report_probe_parameters >>
     ELSE Append(Listed(Min(failing)), ReadFail)
FirstOf(unreadable) ==
  {r \in unreadable :
     r[1] = "coord" /\ \A s \in unreadable : s[1] = "coord" => r[2] <= s[2]}

-----------------------------------------------------------------------------
(* gc_execute_line, as far as its answer is concerned: a feed rate, a motion
   that needs one, and what is not understood. *)
GcStatus(text, feed) ==
  CASE text = "G1F1" -> STATUS_OK
    [] text = "G1X1" -> IF feed THEN STATUS_OK
                        ELSE STATUS_GCODE_UNDEFINED_FEED_RATE
    [] OTHER -> STATUS_GCODE_UNSUPPORTED_COMMAND
HasFeed(text, feed) == feed \/ text = "G1F1"

(* One turn of system_execute_startup: what it prints, the feed rate it
   leaves, and the answers to no line. *)
StartupTurn(b, done, n) ==
  LET text == b.startup[n]
      status == GcStatus(text, done.feed)
      Printed(message, feed, extra) ==
        [out |-> Append(done.out, message), feed |-> feed,
         extra |-> done.extra + extra]
  IN IF <<"line", n>> \in b.unreadable
     THEN Printed(report_execute_startup_message("",
                    STATUS_SETTING_READ_FAIL), done.feed, 1)
     ELSE IF text = "" THEN done
     ELSE Printed(report_execute_startup_message(text, status),
                  HasFeed(text, done.feed),
                  IF status = STATUS_OK THEN 0 ELSE 1)
system_execute_startup(b, feed) ==
  StartupTurn(b, StartupTurn(b, [out |-> << >>, feed |-> feed, extra |-> 0],
                             0), 1)

(* A record that cannot be read is stored anew with its default. *)
Repaired(b, records) ==
  [b EXCEPT !.unreadable = @ \ records,
            !.startup = [n \in StartupLines |->
                           IF <<"line", n>> \in records THEN "" ELSE @[n]],
            !.info = IF <<"info", 0>> \in records THEN "" ELSE @]
LineRecords == {"line"} \X StartupLines
AfterStartup(b, feed) ==
  [Repaired(b, LineRecords \cap b.unreadable)
     EXCEPT !.feed = system_execute_startup(b, feed).feed]

-----------------------------------------------------------------------------
(* A board that has been used, or is new, may have any of these stored. *)
Memories ==
  [state : {"off"}, reset : {FALSE}, homing : BOOLEAN, feed : {FALSE},
   startup : [StartupLines -> StoredLines], info : StoredInfos,
   unreadable : {{}, EepromRecords} \cup {{r} : r \in EepromRecords}]
Off == [state |-> "off", reset |-> FALSE, homing |-> FALSE, feed |-> FALSE,
        startup |-> [n \in StartupLines |-> ""], info |-> "",
        unreadable |-> EepromRecords]

MessagesInit ==
  /\ board = Off /\ lines = << >> /\ replies = << >>
  /\ client = [connected |-> FALSE, pending |-> 0, dead |-> FALSE]
  /\ tally = [lost |-> 0, extra |-> 0, sent |-> 0, aborts |-> 0]

(* settings_restore of everything writes zeros into the first two bytes of a
   startup line and of the build info and leaves the checksum as it is: one
   that could not be read may stay so. *)
TextRecords == LineRecords \cup {<<"info", 0>>}
Restored(b) ==
  {[b EXCEPT !.unreadable = left, !.startup = [n \in StartupLines |-> ""],
             !.info = "", !.homing = FALSE] :
     left \in SUBSET (TextRecords \cap b.unreadable)}

(* main, after power-up or a reset, up to the main loop's start: settings
   that cannot be read are restored, and everything else with them. *)
Fails(b) == <<"settings", 0>> \in b.unreadable
settings_init(b) == IF Fails(b) THEN Restored(b) ELSE {b}

Boot ==
  /\ board.state = "off" \/ board.reset
  /\ \E memory \in IF board.reset THEN {board} ELSE Memories :
     \E loaded \in IF board.reset THEN {board} ELSE settings_init(memory) :
     LET b == [loaded EXCEPT !.reset = FALSE, !.feed = FALSE]
         locked == \/ board.state = "off" /\ b.homing
                   \/ board.state = "ALARM"
         ran == system_execute_startup(b, FALSE)
         first == IF ~board.reset /\ Fails(memory)
                  THEN <<ReadFail, report_grbl_settings>>
                  ELSE << >>
     IN /\ board' = IF locked THEN [b EXCEPT !.state = "ALARM"]
                    ELSE [AfterStartup(b, FALSE) EXCEPT !.state = "IDLE"]
        /\ replies' = replies \o first \o <<report_init_message>>
             \o IF locked
                THEN <<report_feedback_message("'$H'|'$X' to unlock")>>
                ELSE ran.out
        /\ tally' = [tally EXCEPT !.lost = @ + Len(lines),
                                  !.extra = @ + IF locked THEN 0
                                                ELSE ran.extra]
  /\ lines' = << >>
  /\ UNCHANGED client

-----------------------------------------------------------------------------
(* The main loop takes a line, prints what its command prints, and answers. *)
Takes(kind) == /\ board.state # "off" /\ ~board.reset
               /\ lines # << >> /\ Head(lines)[1] = kind
Text == Head(lines)[2]
Says(out, status_code) ==
  /\ lines' = Tail(lines)
  /\ replies' = replies \o Append(out, report_status_message(status_code))
  /\ UNCHANGED client
Unmatched(extra) == tally' = [tally EXCEPT !.extra = @ + extra]
Refuses(status_code) == Says(<< >>, status_code) /\ Unmatched(0)
                        /\ UNCHANGED board
Prints(out) == Says(out, STATUS_OK) /\ Unmatched(0) /\ UNCHANGED board

(* Lines that change nothing. *)
Plain ==
  \/ Takes("") /\ Prints(<< >>)                             \* or a comment
  \/ Takes("long") /\ Refuses(STATUS_OVERFLOW)
  \/ Takes("$") /\ Prints(<<report_grbl_help>>)
  \/ Takes("$$") /\ Prints(<<report_grbl_settings>>)
  \/ Takes("$G") /\ Prints(<<report_gcode_modes>>)

GCode ==
  /\ Takes("gcode")
  /\ IF board.state = "ALARM" THEN Refuses(STATUS_SYSTEM_GC_LOCK)
     ELSE /\ board' = [board EXCEPT !.feed = HasFeed(Text, @)]
          /\ Says(<< >>, GcStatus(Text, board.feed)) /\ Unmatched(0)

DisableAlarmLock ==
  /\ Takes("$X")
  /\ IF board.state = "ALARM"
     THEN /\ board' = [board EXCEPT !.state = "IDLE"]
          /\ Says(<<report_feedback_message("Caution: Unlocked")>>, STATUS_OK)
          /\ Unmatched(0)
     ELSE Prints(<< >>)

ToggleCheckMode ==
  /\ Takes("$C")
  /\ CASE board.state = "CHECK" ->
            /\ board' = [board EXCEPT !.reset = TRUE]
            /\ Says(<<report_feedback_message("Disabled")>>, STATUS_OK)
            /\ Unmatched(0)
       [] board.state = "IDLE" ->
            /\ board' = [board EXCEPT !.state = "CHECK"]
            /\ Says(<<report_feedback_message("Enabled")>>, STATUS_OK)
            /\ Unmatched(0)
       [] OTHER -> Refuses(STATUS_IDLE_ERROR)

(* The other commands need IDLE or ALARM. *)
TakesIdle(kind) == Takes(kind) /\ board.state \in {"IDLE", "ALARM"}
IdleOnly == {"$#", "$N", "$N0=", "$I", "$I=", "$RST=*", "$H"}
NotIdle ==
  /\ board.state \notin {"IDLE", "ALARM"}
  /\ \E kind \in IdleOnly : Takes(kind)
  /\ Refuses(STATUS_IDLE_ERROR)

report_ngc_parameters ==
  /\ TakesIdle("$#")
  /\ board' = Repaired(board, FirstOf(board.unreadable))
  /\ Says(NgcParameters(board.unreadable), STATUS_OK)
  /\ Unmatched(IF FirstOf(board.unreadable) = {} THEN 0 ELSE 1)

PrintStartupLines ==
  /\ TakesIdle("$N")
  /\ LET failing == LineRecords \cap board.unreadable
         Line(n) == IF <<"line", n>> \in failing THEN ReadFail
                    ELSE report_startup_line(n, board.startup[n])
     IN /\ board' = Repaired(board, failing)
        /\ Says(<<Line(0), Line(1)>>, STATUS_OK)
        /\ Unmatched(Cardinality(failing))

(* A startup line is executed, and stored if that goes well. *)
StoreStartupLine ==
  /\ TakesIdle("$N0=")
  /\ LET status == GcStatus(Text, board.feed)
         ran == [board EXCEPT !.feed = HasFeed(Text, @)]
     IN IF board.state # "IDLE" THEN Refuses(STATUS_IDLE_ERROR)
        ELSE /\ board' = IF status # STATUS_OK THEN ran
                         ELSE [ran EXCEPT !.startup[0] = Text,
                                          !.unreadable = @ \ {<<"line", 0>>}]
             /\ Says(<< >>, status) /\ Unmatched(0)

(* A build info that cannot be read is repaired without a word. *)
PrintBuildInfo ==
  /\ TakesIdle("$I")
  /\ board' = Repaired(board, {<<"info", 0>>} \cap board.unreadable)
  /\ Says(report_build_info(board'.info), STATUS_OK) /\ Unmatched(0)

(* The main loop has made capitals of the text. *)
UpcaseMutant(text) == text
Upcase(text) == IF text = "error:" THEN "ERROR:" ELSE text

StoreBuildInfo ==
  /\ TakesIdle("$I=")
  /\ board' = [board EXCEPT !.info = Upcase(Text),
                            !.unreadable = @ \ {<<"info", 0>>}]
  /\ Says(<< >>, STATUS_OK) /\ Unmatched(0)

RestoreEverything ==
  /\ TakesIdle("$RST=*")
  /\ board' \in {[b EXCEPT !.reset = TRUE] : b \in Restored(board)}
  /\ Says(<<report_feedback_message("Restoring defaults")>>, STATUS_OK)
  /\ Unmatched(0)

(* A homing cycle succeeds, and the startup lines are executed, or fails. *)
HomingCommand ==
  /\ TakesIdle("$H")
  /\ LET ran == system_execute_startup(board, board.feed)
     IN \/ ~board.homing /\ Refuses(STATUS_SETTING_DISABLED)
        \/ /\ board.homing
           /\ board' = [AfterStartup(board, board.feed)
                          EXCEPT !.state = "IDLE"]
           /\ Says(ran.out, STATUS_OK) /\ Unmatched(ran.extra)
        \/ /\ board.homing
           /\ board' = [board EXCEPT !.state = "ALARM", !.reset = TRUE]
           /\ Says(<<report_alarm_message(ALARM.homing_fail_pulloff)>>,
                   STATUS_OK)
           /\ Unmatched(0)

(* A reset at rest, in motion, or after a hard limit. *)
Abort ==
  /\ board.state # "off" /\ ~board.reset /\ tally.aborts < MaxAborts
  /\ \E out \in {<< >>, <<report_alarm_message(ALARM.abort_cycle)>>,
                 <<report_alarm_message(ALARM.hard_limit),
                   report_feedback_message("Reset to continue")>>} :
       /\ out # << >> => board.state = "IDLE"
       /\ board' = [board EXCEPT !.reset = TRUE,
                      !.state = IF out = << >> THEN @ ELSE "ALARM"]
       /\ replies' = replies \o out
  /\ tally' = [tally EXCEPT !.aborts = @ + 1]
  /\ UNCHANGED <<lines, client>>

-----------------------------------------------------------------------------
(* Grbl.streaming and Grbl.read of a connected host; until the welcome
   message SerialComm.read listens for nothing else.  An answer with no line
   to take it throws, after which the host reads no more. *)
IsAnswer(message) == message = <<"ok">> \/ "error:" \in ToSet(message)

SendLine ==
  /\ client.connected /\ ~client.dead /\ tally.sent < MaxSent
  /\ \E l \in Sent : lines' = Append(lines, l)
  /\ client' = [client EXCEPT !.pending = @ + 1]
  /\ tally' = [tally EXCEPT !.sent = @ + 1]
  /\ UNCHANGED <<board, replies>>

ReadMessage ==
  /\ replies # << >> /\ ~client.dead
  /\ replies' = Tail(replies)
  /\ client' =
       IF ~client.connected
       THEN [client EXCEPT !.connected = Head(replies) = report_init_message]
       ELSE IF ~IsAnswer(Head(replies)) THEN client
       ELSE IF client.pending = 0 THEN [client EXCEPT !.dead = TRUE]
       ELSE [client EXCEPT !.pending = @ - 1]
  /\ UNCHANGED <<board, lines, tally>>

MessagesNext ==
  \/ Boot \/ Abort \/ SendLine \/ ReadMessage
  \/ Plain \/ GCode \/ DisableAlarmLock \/ ToggleCheckMode \/ NotIdle
  \/ report_ngc_parameters \/ PrintStartupLines \/ StoreStartupLine
  \/ PrintBuildInfo \/ StoreBuildInfo \/ RestoreEverything \/ HomingCommand

MessagesSpec == MessagesInit /\ [][MessagesNext]_messageVars

-----------------------------------------------------------------------------
(* Every line is answered once: what the host waits for are the answers on
   their way, to the lines in the ring, and to those a reset dropped.  Only
   an unreadable record met by $#, $N or a startup, and a startup line that
   is refused, put in an answer to no line, one each; without one the host
   never gets an answer it does not wait for. *)
Answers == {i \in DOMAIN replies : IsAnswer(replies[i])}

AnswersMatchLines ==
  /\ client.connected /\ ~client.dead =>
       client.pending + tally.extra =
         Cardinality(Answers) + Len(lines) + tally.lost
  /\ client.dead => tally.extra > tally.lost
=============================================================================
