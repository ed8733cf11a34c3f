---------------------------- MODULE MCToolGateway ----------------------------
(* A gateway with one value the prompt engine finds, one only a file can     *)
(* rebuild and one only another process publishes; no tool-output detection. *)
EXTENDS ToolGateway, TLC

TextValues == ("t1" :> {"prompted", "filed"}) @@ ("t2" :> {"filed", "foreign"})
              @@ ("t3" :> {"prompted"})
Engine == ("tool" :> {}) @@ ("prompt" :> {"prompted"})
==============================================================================
