---------------------------- MODULE MCKmsProgram ----------------------------
(* Fault sets for the model checking of KmsProgram. *)
EXTENDS KmsProgram

AllFaults == Calls \cup TeardownCalls
ControlFault == {"control"}
=============================================================================
