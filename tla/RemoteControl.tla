--------------------------- MODULE RemoteControl ---------------------------
(***************************************************************************)
(* Enabling and disabling the relay (kilo-sessions.ts) on top of its       *)
(* connections: enableRemote checks the credentials and then connects,     *)
(* unless disableRemote came in between.  remoteSeq is the number of the   *)
(* attempt that still counts; here it is that attempt itself.              *)
(***************************************************************************)
EXTENDS RemoteWS

CONSTANT NoRelay

ASSUME NoRelayAssumption == NoRelay \notin Relays

VARIABLES
  remote,      \* the connection that is enabled
  enabling,    \* the attempt that other callers join
  current,     \* the attempt whose number is remoteSeq
  phase        \* of the attempts, each with a connection of its own

control == <<remote, enabling, current, phase>>
allVars == <<wsVars, control>>

ControlTypeOK ==
  /\ WsTypeOK
  /\ remote \in Relays \cup {NoRelay}
  /\ enabling \in Relays \cup {NoRelay} /\ current \in Relays \cup {NoRelay}
  /\ phase \in [Relays -> {"idle", "checking", "done"}]
  /\ \A c \in Relays : st[c] # "new" => phase[c] = "done"

ControlInit ==
  /\ WsInit
  /\ remote = NoRelay /\ enabling = NoRelay /\ current = NoRelay
  /\ phase = [c \in Relays |-> "idle"]

(* enableRemote, by a caller who finds neither a connection nor an attempt  *)
(* to join.                                                                 *)
EnableRemote(c) ==
  /\ phase[c] = "idle" /\ remote = NoRelay /\ enabling = NoRelay
  /\ phase' = [phase EXCEPT ![c] = "checking"]
  /\ enabling' = c /\ current' = c
  /\ UNCHANGED <<wsVars, remote>>

Settled(c) == /\ phase' = [phase EXCEPT ![c] = "done"]
              /\ enabling' = IF current = c THEN NoRelay ELSE enabling

(* No token, an invalid one, or no answer. *)
CheckFails(c) ==
  /\ phase[c] = "checking"
  /\ Settled(c)
  /\ UNCHANGED <<wsVars, remote, current>>

(* Mutant: the attempt's number is not compared. *)
ConnectAnyway(c) ==
  /\ phase[c] = "checking"
  /\ Connect(c, FALSE)
  /\ remote' = c
  /\ Settled(c)
  /\ UNCHANGED current

(* The check passed: connect, and close again if the attempt is superseded. *)
ConnectRemote(c) ==
  /\ phase[c] = "checking"
  /\ Connect(c, current # c)
  /\ remote' = IF current = c THEN c ELSE remote
  /\ Settled(c)
  /\ UNCHANGED current

DisableRemote ==
  /\ current # NoRelay
  /\ current' = NoRelay /\ enabling' = NoRelay /\ remote' = NoRelay
  /\ IF remote = NoRelay THEN UNCHANGED wsVars ELSE Close(remote)
  /\ UNCHANGED phase

(* onClose of a refused connection: disableRemote, at once. *)
RefusedRemote(c) ==
  /\ ~ closed[c] /\ Refused(c)
  /\ current' = NoRelay /\ enabling' = NoRelay /\ remote' = NoRelay
  /\ UNCHANGED phase

(* A refusal of a closed connection is like any other end. *)
RefusedClosed(c) == closed[c] /\ Refused(c) /\ UNCHANGED control

ControlNext ==
  \/ \E c \in Relays : \/ EnableRemote(c) \/ CheckFails(c) \/ ConnectRemote(c)
                       \/ RefusedRemote(c) \/ RefusedClosed(c)
                       \/ (SocketStep(c) \/ SendMessage(c)) /\ UNCHANGED control
  \/ DisableRemote

ControlSpec == ControlInit /\ [][ControlNext]_allVars

(* Promises settle, timers fire, and after the failures the server is      *)
(* there.  Nobody needs to send, to enable, to disable or to fail.         *)
FairControlSpec ==
  /\ ControlSpec
  /\ \A c \in Relays :
       /\ WF_allVars(GotToken(c) /\ UNCHANGED control)
       /\ WF_allVars(Opened(c) /\ UNCHANGED control)
       /\ WF_allVars(Timer(c) /\ UNCHANGED control)
       /\ WF_allVars(Silence(c) /\ ~ peer[c] /\ UNCHANGED control)
       /\ WF_allVars(Disconnected(c) /\ st[c] = "closing" /\ UNCHANGED control)

----------------------------------------------------------------------------
(* Properties *)

(* Of all the connections only the enabled one may still want to be open,   *)
(* however enabling, disabling and the server's refusals cross: nobody is   *)
(* connected behind the back of remoteStatus for good.                      *)
OneRemote ==
  \A c \in Relays :
    ~ closed[c] /\ st[c] \notin {"new", "ended", "refused"} <=> remote = c

(* Who joins an attempt joins the one that counts. *)
JoinsCurrent == enabling # NoRelay => current = enabling /\ phase[enabling] = "checking"

(* A closed connection that has no token to wait for and no socket does not *)
(* come back.                                                               *)
NoComeback ==
  [][\A c \in Relays :
       closed[c] /\ st[c] \in {"closing", "ended"} => st'[c] \in {"closing", "ended"}]_allVars
============================================================================
