---------------------------- MODULE MCPublishing ----------------------------
(***************************************************************************)
(* Two instances of ToolPublishing: requests that overlap and fail, about  *)
(* one tool, and requests answered one after the other, about two.  Both   *)
(* are of the module with the proofs, whose theorems hold for either.      *)
(***************************************************************************)
EXTENDS ToolPublishing_proofs, MCToolPublishing

CONSTANTS SerialTools, SerialHandlers, SerialCodes

VARIABLE part   \* the instance that runs

Serially == INSTANCE ToolPublishing_proofs WITH
    Tools <- SerialTools, Handlers <- SerialHandlers, Codes <- SerialCodes,
    Modes <- AllModes, Operations <- RegisteringOperations, ServerOps <- RunningServerOps,
    Serial <- TRUE, Failures <- FALSE

ASSUME SerialConstantsOK == Serially!ConstantsOK /\ Serially!PublishingConstantsOK

MCInit == \/ part = "overlap" /\ PInit
          \/ part = "serial" /\ Serially!PInit

MCNext == /\ \/ part = "overlap" /\ PNext
             \/ part = "serial" /\ Serially!PNext
          /\ UNCHANGED part

MCSpec == MCInit /\ [][MCNext]_<<pvars, part>>

\* RegisteredWasApproved of the requests that overlap.
OverlappingApproved == part = "overlap" => RegisteredWasApproved

\* RegistryInSync of the requests that do not.
SerialInSync == part = "serial" => Serially!RegistryInSync
=============================================================================
