------------------------------ MODULE OscLink ------------------------------
(***************************************************************************)
(* The connection between the two writers: two programs that run           *)
(* oscComm/OscComm.java, and UDP between them.  Key ~ disconnects and      *)
(* requests a connection; a request is answered with a reply, and whoever  *)
(* answers or is answered holds itself for connected; a disconnect is      *)
(* echoed by a side that was connected.                                    *)
(*                                                                         *)
(* Three threads of a program send: the animation thread (keys, exit), the *)
(* thread of oscP5 that calls receive, and OscCommThread (pen data).  All  *)
(* of them compose their message in the one object msg before they send    *)
(* it, so that a thread may send what another one has composed, or a mix   *)
(* of both, which the other side cannot read (oscP5 catches the exception  *)
(* of the handler).  Addresses and payloads are left out: each side talks  *)
(* to the address the other one has.                                       *)
(***************************************************************************)
EXTENDS Integers, Sequences, SequencesExt

CONSTANTS Hosts,        \* the two programs
          MaxPresses,   \* bound: uses of the keys and of the pen, in all
          MaxFaults     \* bound: datagrams lost, doubled or overtaken

ASSUME TwoHosts == \E a, b \in Hosts : a # b /\ Hosts = {a, b}

VARIABLES
  isConnected,
  msg,      \* the shared OscMessage: its address pattern, or "garbled"
  key, osc, pen,   \* where the three threads of a program are
  net,      \* the datagrams on the way to a host
  presses, faults,
  lastPress,   \* history: the last press came to a quiet link, and nothing
               \* went wrong since
  ordered      \* history: no fault and no race so far

threads == <<key, osc, pen>>
history == <<presses, faults, lastPress, ordered>>
linkVars == <<isConnected, msg, threads, net, history>>

Other(h) == CHOOSE o \in Hosts : o # h

Patterns == {"request", "reply", "disconnect", "tabletInput", "garbled"}

LinkInit ==
  /\ isConnected = [h \in Hosts |-> FALSE]
  /\ msg = [h \in Hosts |-> "garbled"]
  /\ key = [h \in Hosts |-> "idle"]
  /\ osc = [h \in Hosts |-> "idle"]
  /\ pen = [h \in Hosts |-> "idle"]
  /\ net = [h \in Hosts |-> << >>]
  /\ presses = 0 /\ faults = 0
  /\ lastPress = FALSE /\ ordered = TRUE

Composing(h) ==
  {t \in {<<"key", key[h]>>, <<"osc", osc[h]>>, <<"pen", pen[h]>>} :
     t[2] \in {"request", "reply", "disconnect", "tabletInput", "exit"}}

Quiet == \A h \in Hosts : /\ net[h] = << >>
                          /\ key[h] \in {"idle", "stopped"}
                          /\ osc[h] = "idle" /\ pen[h] = "idle"

-----------------------------------------------------------------------------
(* sendConnectionMsg and sendTabletInputMsg: clear and fill the object ... *)
Compose(h, p) ==
  IF Composing(h) = {}
  THEN msg' = [msg EXCEPT ![h] = p] /\ UNCHANGED <<lastPress, ordered>>
  ELSE /\ \E m \in {p, msg[h], "garbled"} : msg' = [msg EXCEPT ![h] = m]
       /\ lastPress' = FALSE /\ ordered' = FALSE

(* ... and send it. *)
Send(h) == net' = [net EXCEPT ![Other(h)] = Append(@, msg[h])]

(* tryToConnect: disconnect(true), ... *)
TryToConnect(h) ==
  /\ key[h] = "idle" /\ presses < MaxPresses
  /\ presses' = presses + 1
  /\ isConnected' = [isConnected EXCEPT ![h] = FALSE]
  /\ key' = [key EXCEPT ![h] = "disconnect"]
  /\ Composing(h) = {} => /\ lastPress' = (Quiet /\ key[Other(h)] = "idle")
                          /\ msg' = [msg EXCEPT ![h] = "disconnect"]
                          /\ UNCHANGED ordered
  /\ Composing(h) # {} => Compose(h, "disconnect")
  /\ UNCHANGED <<osc, pen, net, faults>>

(* ... then the request. *)
KeyGoesOn(h) ==
  \/ /\ key[h] = "disconnect" /\ Send(h)
     /\ key' = [key EXCEPT ![h] = "compose"]
     /\ UNCHANGED <<msg, lastPress, ordered>>
  \/ /\ key[h] = "compose" /\ Compose(h, "request")
     /\ key' = [key EXCEPT ![h] = "request"]
     /\ UNCHANGED net
  \/ /\ key[h] = "request" /\ Send(h)
     /\ key' = [key EXCEPT ![h] = "idle"]
     /\ UNCHANGED <<msg, lastPress, ordered>>

KeyThread(h) == /\ KeyGoesOn(h)
                /\ UNCHANGED <<isConnected, osc, pen, presses, faults>>

-----------------------------------------------------------------------------
(* receive, called by oscP5 for one datagram at a time. *)
EchoesMutant(h) == TRUE
Echoes(h) == isConnected[h]

Receive(h) ==
  /\ key[h] # "stopped" /\ osc[h] = "idle" /\ net[h] # << >>
  /\ net' = [net EXCEPT ![h] = Tail(@)]
  /\ \/ /\ Head(net[h]) = "request"
        /\ Compose(h, "reply")
        /\ osc' = [osc EXCEPT ![h] = "reply"]
        /\ UNCHANGED isConnected
     \/ /\ Head(net[h]) = "reply"
        /\ isConnected' = [isConnected EXCEPT ![h] = TRUE]
        /\ UNCHANGED <<msg, osc, lastPress, ordered>>
     \/ /\ Head(net[h]) = "disconnect" /\ Echoes(h)
        /\ isConnected' = [isConnected EXCEPT ![h] = FALSE]
        /\ Compose(h, "disconnect")
        /\ osc' = [osc EXCEPT ![h] = "disconnect"]
     \/ /\ \/ Head(net[h]) = "disconnect" /\ ~Echoes(h)
           \/ Head(net[h]) \in {"tabletInput", "garbled"}
        /\ UNCHANGED <<isConnected, msg, osc, lastPress, ordered>>
  /\ UNCHANGED <<key, pen, presses, faults>>

AfterReplyMutant(h) == isConnected
AfterReply(h) == [isConnected EXCEPT ![h] = TRUE]

ReceiveGoesOn(h) ==
  /\ \/ /\ osc[h] \in {"reply", "disconnect"} /\ Send(h)
        /\ osc' = [osc EXCEPT ![h] = IF @ = "reply" THEN "connect" ELSE "idle"]
        /\ UNCHANGED isConnected
     \/ /\ osc[h] = "connect"
        /\ isConnected' = AfterReply(h)
        /\ osc' = [osc EXCEPT ![h] = "idle"]
        /\ UNCHANGED net
  /\ UNCHANGED <<msg, key, pen, history>>

(* streaming: a point of the pen is sent, connected or not. *)
Streaming(h) ==
  /\ key[h] # "stopped"
  /\ \/ /\ pen[h] = "idle" /\ presses < MaxPresses
        /\ presses' = presses + 1
        /\ Compose(h, "tabletInput")
        /\ pen' = [pen EXCEPT ![h] = "tabletInput"]
        /\ UNCHANGED net
     \/ /\ pen[h] = "tabletInput" /\ Send(h)
        /\ pen' = [pen EXCEPT ![h] = "idle"]
        /\ UNCHANGED <<msg, presses, lastPress, ordered>>
  /\ UNCHANGED <<isConnected, key, osc, faults>>

-----------------------------------------------------------------------------
(* dispose, when the program ends: closePort says so if it is connected. *)
Dispose(h) ==
  /\ key[h] = "idle" /\ presses < MaxPresses
  /\ presses' = presses + 1
  /\ isConnected[h]
  /\ isConnected' = [isConnected EXCEPT ![h] = FALSE]
  /\ key' = [key EXCEPT ![h] = "exit"]
  /\ IF Quiet THEN Compose(h, "disconnect")
              ELSE /\ \E m \in {"disconnect", msg[h], "garbled"} :
                         msg' = [msg EXCEPT ![h] = m]
                   /\ lastPress' = FALSE /\ ordered' = FALSE
  /\ UNCHANGED <<osc, pen, net, faults>>

Stop(h) ==
  /\ \/ key[h] = "exit" /\ Send(h)
     \/ /\ key[h] = "idle" /\ ~isConnected[h] /\ presses < MaxPresses
        /\ UNCHANGED net
  /\ presses' = IF key[h] = "exit" THEN presses ELSE presses + 1
  /\ key' = [key EXCEPT ![h] = "stopped"]
  /\ osc' = [osc EXCEPT ![h] = "idle"]
  /\ pen' = [pen EXCEPT ![h] = "idle"]
  /\ lastPress' = FALSE /\ ordered' = (ordered /\ (key[h] = "exit" \/ Quiet))
  /\ UNCHANGED <<isConnected, msg, faults>>

(* It is started again; what came in between is gone. *)
Start(h) ==
  /\ key[h] = "stopped"
  /\ key' = [key EXCEPT ![h] = "idle"]
  /\ isConnected' = [isConnected EXCEPT ![h] = FALSE]
  /\ msg' = [msg EXCEPT ![h] = "garbled"]
  /\ UNCHANGED <<osc, pen, net, history>>

NobodyListens(h) ==
  /\ key[h] = "stopped" /\ net[h] # << >>
  /\ net' = [net EXCEPT ![h] = Tail(@)]
  /\ UNCHANGED <<isConnected, msg, threads, history>>

(* UDP loses, doubles and reorders datagrams (external). *)
Fault(h) ==
  /\ faults < MaxFaults /\ faults' = faults + 1
  /\ \E i \in 1 .. Len(net[h]) :
       \/ net' = [net EXCEPT ![h] = RemoveAt(@, i)]
       \/ net' = [net EXCEPT ![h] = Append(@, @[i])]
       \/ i > 1 /\ net' = [net EXCEPT ![h] = <<@[i]>> \o RemoveAt(@, i)]
  /\ lastPress' = FALSE /\ ordered' = FALSE
  /\ UNCHANGED <<isConnected, msg, threads, presses>>

LinkNext ==
  \E h \in Hosts :
    \/ TryToConnect(h) \/ KeyThread(h)
    \/ Receive(h) \/ ReceiveGoesOn(h) \/ Streaming(h)
    \/ Dispose(h) \/ Stop(h) \/ Start(h) \/ NobodyListens(h) \/ Fault(h)

(* Each thread that is in a call goes on, and datagrams arrive. *)
KeyMoves(h) == KeyThread(h) \/ (key[h] = "exit" /\ Stop(h))
OscMoves(h) == Receive(h) \/ ReceiveGoesOn(h) \/ NobodyListens(h)
PenMoves(h) == pen[h] = "tabletInput" /\ Streaming(h)

LinkSpec ==
  /\ LinkInit /\ [][LinkNext]_linkVars
  /\ \A h \in Hosts : /\ WF_linkVars(KeyMoves(h))
                      /\ WF_linkVars(OscMoves(h))
                      /\ WF_linkVars(PenMoves(h))

-----------------------------------------------------------------------------
LinkTypeOK ==
  /\ isConnected \in [Hosts -> BOOLEAN]
  /\ msg \in [Hosts -> Patterns]
  /\ key \in [Hosts -> {"idle", "disconnect", "compose", "request", "exit",
                        "stopped"}]
  /\ osc \in [Hosts -> {"idle", "reply", "connect", "disconnect"}]
  /\ pen \in [Hosts -> {"idle", "tabletInput"}]
  /\ net \in [Hosts -> Seq(Patterns)] /\ presses \in Nat /\ faults \in Nat
  /\ lastPress \in BOOLEAN /\ ordered \in BOOLEAN

(* Whatever state faults, races and restarts have left the two sides in, one
   press of ~ while nothing else goes on connects both of them: also a side
   that still believes in the old connection, and although its echo of the
   disconnect arrives at a side that is about to be connected.  While UDP
   behaves, the two sides agree when nothing is on the way, whoever pressed
   whatever at whatever time. *)
Agreement ==
  Quiet => /\ lastPress => \A h \in Hosts : isConnected[h]
           /\ ordered /\ (\A h \in Hosts : key[h] # "stopped")
              => \A h \in Hosts : isConnected[h] = isConnected[Other(h)]

(* Echoes of echoes die out: the link falls quiet. *)
FallsQuiet == <>[]Quiet
=============================================================================
