---------------------------- MODULE MCPtyStream ----------------------------
EXTENDS PtyStream, TLC

CONSTANTS a, b

(* One pty puts out more than its buffer holds, the other is silent. *)
Outputs == a :> 3 @@ b :> 0
============================================================================
