-------------------------------- MODULE MCGates --------------------------------
(* What stands between a login and a call: the consent gate, its evidence in a    *)
(* file, the refusal of the next envelope, the places a browser may be sent.      *)
(* They share no state that the models tell apart: one of them moves while the    *)
(* others are as they began.                                                      *)
EXTENDS ConsentEvidence, ConsentGate, Reconsent, RedirectTargets, TLC

\* Two versions of the rules.
MCVersions == {[version |-> 1, hash |-> 1], [version |-> 2, hash |-> 2]}

\* One acceptance, in the file.
MCAcceptances == { [at |-> 1, version |-> "v1", hash |-> "h1"] }

\* An acceptance of the first.
V1 == [version |-> 1, hash |-> 1]
MCHistories == {<<GrantRow(CHOOSE u \in Subject : TRUE, V1, 1, Absent)>>}

\* Callbacks inside and outside a range of addresses, one with its bits in the
\* other version, one on the machine, one of an application.
Name(labels) == [kind |-> "name", is |-> labels]
Address(version, bits) == [kind |-> version, is |-> bits]
At(scheme, host) ==
    [scheme |-> scheme, host |-> host, port |-> 1, path |-> <<"cb">>, concrete |-> TRUE, bare |-> TRUE]
MCCallbacks ==
    { At("http", Address("v4", <<"1", "0", "0">>)), At("https", Address("v4", <<"0", "0", "1">>)),
      At("https", Address("v6", <<"1", "0", "0">>)), At("http", Name(<<"localhost">>)),
      [At("own", Name(<<"x">>)) EXCEPT !.path = <<"cb", "n">>] }
MCAllowed ==
    { [kind |-> "under", host |-> Name(<<"app", "org">>), bits |-> 0],
      [kind |-> "range", host |-> Address("v4", <<"1", "0", "1">>), bits |-> 2] }
Rule(u, port, given) ==
    [ scheme |-> u.scheme, host |-> u.host, path |-> u.path, concrete |-> TRUE, bare |-> TRUE,
      port |-> port, portGiven |-> given, schemeOnly |-> FALSE ]
MCApproved ==
    {Rule(At("own", Name(<<"x">>)), 1, TRUE), Rule(At("http", Name(<<"localhost">>)), 2, FALSE)}
MCConfigured == [c \in {Shared} |-> {}]

MCInit == EvidenceInit /\ GateInit /\ ReconsentInit /\ TargetsInit
GateRests == GateInit /\ rules = [r \in Replica |-> V1]
MCNext ==
    \/ /\ GateRests /\ ReconsentInit /\ TargetsInit
       /\ EvidenceNext /\ UNCHANGED <<gateVars, reconsentVars, targetVars>>
    \/ /\ EvidenceInit /\ ReconsentInit /\ TargetsInit
       /\ GateNext /\ UNCHANGED <<evidenceVars, reconsentVars, targetVars>>
    \/ /\ EvidenceInit /\ GateRests /\ TargetsInit
       /\ ReconsentNext /\ UNCHANGED <<evidenceVars, gateVars, targetVars>>
    \/ /\ EvidenceInit /\ GateRests /\ ReconsentInit
       /\ TargetsNext /\ UNCHANGED <<evidenceVars, gateVars, reconsentVars>>
MCSpec == MCInit /\ [][MCNext]_<<evidenceVars, gateVars, reconsentVars, targetVars>>

\* The parts share their model values, so that the group stays small.
Symmetry == Permutations(Store) \cup Permutations(GateCall) \cup Permutations(Browser) \cup Permutations(Replica)
=============================================================================
