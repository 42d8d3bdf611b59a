------------------------------- MODULE MCParts -------------------------------
(* Jobs, LogBuffer, JobOutput, Proxy, Lockout and Callbacks for TLC.  They share no state: a
   behaviour is one of a single component, while the others stand still. *)
EXTENDS Jobs, LogBuffer, JobOutput, Proxy, Lockout, Callbacks

CONSTANTS pub1, pub2, priv, j1, c1, c2, top, sub

VARIABLE part

SomeChunks == {<<1>>, <<0, 0>>, <<2, 0>>, <<3>>, <<1, 1>>, <<0, 2, 1>>}

\* A callback and a longer one under it: the prefix lets both in.
Under == [u \in Uris |-> IF u = top THEN {top, sub} ELSE {sub}]
Exact == [u \in Uris |-> {u}]

jobsAlone  == <<logVars, outVars, proxyVars, lockVars, cbVars>>
logAlone   == <<jobVars, outVars, proxyVars, lockVars, cbVars>>
outAlone   == <<jobVars, logVars, proxyVars, lockVars, cbVars>>
proxyAlone == <<jobVars, logVars, outVars, lockVars, cbVars>>
lockAlone  == <<jobVars, logVars, outVars, proxyVars, cbVars>>
cbAlone    == <<jobVars, logVars, outVars, proxyVars, lockVars>>

Init ==
    /\ part \in {"log", "output", "proxy", "door", "jobs", "callbacks"}
    /\ JobsInit /\ LogInit /\ OutInit /\ ProxyInit /\ LockInit /\ CbInit
    /\ part # "proxy" => method = "http" /\ allowed /\ dns = {}
Next ==
    /\ UNCHANGED part
    /\ \/ part = "jobs" /\ JobsNext /\ UNCHANGED jobsAlone
       \/ part = "log" /\ LogNext /\ UNCHANGED logAlone
       \/ part = "output" /\ OutNext /\ UNCHANGED outAlone
       \/ part = "proxy" /\ ProxyNext /\ UNCHANGED proxyAlone
       \/ part = "door" /\ LockNext /\ UNCHANGED lockAlone
       \/ part = "callbacks" /\ CbNext /\ UNCHANGED cbAlone

(* Types, and the bounds of the line splitter, the ring and the list of callbacks. *)
PartsTypeOK ==
    /\ JobsTypeOK /\ LogTypeOK /\ OutTypeOK /\ ProxyTypeOK /\ LockTypeOK /\ CbTypeOK

vars  == <<jobVars, logVars, outVars, proxyVars, lockVars, cbVars, part>>
Reads == part = "log" /\ Read /\ UNCHANGED <<logAlone, part>>
FairSpec == Init /\ [][Next]_vars /\ JobsFair /\ ProxyFair /\ WF_vars(Reads)
==============================================================================
