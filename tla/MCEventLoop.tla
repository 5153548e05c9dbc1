---------------------------- MODULE MCEventLoop ----------------------------
(* EventLoop has no parameters: TLC checks the module itself.              *)
EXTENDS EventLoop
=============================================================================
