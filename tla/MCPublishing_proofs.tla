------------------------- MODULE MCPublishing_proofs -------------------------
(***************************************************************************)
(* What the theorems about ToolPublishing say of its two instances.        *)
(***************************************************************************)
EXTENDS MCPublishing

\* The requests of the overlapping instance: every approval is the admin's, those
\* for one tool do not overlap, and nobody starts the server unfiltered.
Reviewed ==
    /\ Modes = {"require_approval"}
    /\ ~Overlap
    /\ ServerOps \cap Unfiltered = {}

LEMMA FirstPart == MCInit => part = "overlap" \/ part = "serial"
  BY DEF MCInit

LEMMA OverlapPart == MCSpec => (part = "overlap" => [](part = "overlap") /\ PSpec)
<1>1. MCInit /\ part = "overlap" => PInit
  BY DEF MCInit
<1>2. part = "overlap" /\ [MCNext]_<<pvars, part>> => (part = "overlap")' /\ [PNext]_pvars
  BY DEF MCNext
<1> QED
  BY <1>1, <1>2, PTL DEF MCSpec, PSpec

LEMMA SerialPart ==
    MCSpec => (part = "serial" => [](part = "serial") /\ Serially!PSpec)
<1>1. MCInit /\ part = "serial" => Serially!PInit
  BY DEF MCInit
<1>2. part = "serial" /\ [MCNext]_<<pvars, part>>
      => (part = "serial")' /\ [Serially!PNext]_Serially!pvars
  BY DEF MCNext, pvars, Serially!pvars
<1> QED
  BY <1>1, <1>2, PTL DEF MCSpec, Serially!PSpec

\* What runs is one instance, from beginning to end.
LEMMA OnePart == MCSpec => \/ [](part = "overlap") /\ PSpec
                           \/ [](part = "serial") /\ Serially!PSpec
<1>1. MCSpec => part = "overlap" \/ part = "serial"
  BY FirstPart, PTL DEF MCSpec
<1> QED
  BY <1>1, OverlapPart, SerialPart, PTL

\* Code the sandbox can run was committed approved, however the requests of this
\* instance overlap, fail or are cut off.
THEOREM OverlappingCorrect == Reviewed => (MCSpec => []OverlappingApproved)
<1> SUFFICES ASSUME Reviewed PROVE MCSpec => []OverlappingApproved
  OBVIOUS
<1>1. PSpec => []RegisteredWasApproved
  BY RegistrationsApproved DEF Reviewed
<1>2. RegisteredWasApproved => OverlappingApproved
  BY DEF OverlappingApproved
<1>3. part = "serial" => OverlappingApproved
  BY DEF OverlappingApproved
<1> QED
  BY <1>1, <1>2, <1>3, OnePart, PTL

\* Whenever no request is being answered, the sandbox of the serial instance holds
\* the approved and enabled tools of a running server with their current code, and
\* none of a server that does not run, for any tools, code texts and versions.
THEOREM SerialInstanceCorrect == MCSpec => []SerialInSync
<1>1. Serially!Registering
  BY DEF Serially!Registering, RegisteringOperations, RunningServerOps
<1>2. Serially!PSpec => []Serially!RegistryInSync
  BY <1>1, SerialConstantsOK, Serially!SerialCorrect
<1>3. Serially!RegistryInSync => SerialInSync
  BY DEF SerialInSync
<1>4. part = "overlap" => SerialInSync
  BY DEF SerialInSync
<1> QED
  BY <1>2, <1>3, <1>4, OnePart, PTL
=============================================================================
