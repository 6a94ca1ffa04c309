---------------------------- MODULE Server_proofs ----------------------------
(***************************************************************************)
(* Theorems about two parts of the activity manager of the server.         *)
(*                                                                         *)
(* ProcessTable, in the first part, for any number of keys, records,       *)
(* process instances and stubs. The inductive invariant IInv says how the  *)
(* fields of a record, the token of its process, the two tables and the    *)
(* starter's locals stay consistent while all actors interleave.           *)
(*                                                                         *)
(* BroadcastSystem, in the second part, for any broadcasts and receivers.  *)
(***************************************************************************)
EXTENDS ProcessTable, BroadcastSystem, TLAPS

-----------------------------------------------------------------------------
(* ProcessTable: the inductive invariant                                   *)

\* A process was born in a stub, runs in it alone, and only a running one has
\* a pending call; an unborn one holds no token.
ProcessesOK ==
    /\ \A p \in Pid : p \in alive \/ token[p] # Null \/ restart[p] # Null => stubOf[p] \in Vpid
    /\ \A p \in Pid : restart[p] # Null => p \in alive
    /\ \A p, q \in alive : stubOf[p] = stubOf[q] => p = q

\* A token names a created record of the same stub, and no two processes hold
\* the same one.
TokensOK ==
    \A p \in Pid : token[p] # Null =>
        /\ keyOf[token[p]] \in Key
        /\ vpidOf[token[p]] = stubOf[p]
        /\ \A q \in Pid : token[q] = token[p] => q = p

\* A record knows the pid of the process that holds it as a token, and has a
\* recipient only once it does.
RecordsOK ==
    \A r \in Record :
        /\ pidOf[r] # Null => token[pidOf[r]] = r
        /\ reaper[r] # "none" => pidOf[r] # Null
        /\ reaper[r] \in {"unname", "unpid", "done"} => pidOf[r] \notin alive

\* The tables hold created records, under their own key and pid.
TablesOK ==
    /\ \A k \in Key : LET r == mProcessNames[k] IN
            r # Null => keyOf[r] = k /\ pidOf[r] # Null
    /\ \A p \in Pid : LET r == mPidsSelfLocked[p] IN
            r # Null => pidOf[r] = p

\* The starter's locals, step by step. While it is in a stub, no process there
\* but its own hosts an app.
StarterOK ==
    /\ pc \notin {"idle"} => cur.key \in Key
    /\ pc \in {"call"} \cup Attaching =>
        /\ cur.vpid \in Vpid
        /\ \A p \in Running(cur.vpid) : token[p] # Null => p = cur.pid
    /\ pc \in {"lookup", "query", "call"} => cur.pid = Null
    /\ pc \in Attaching =>
        /\ cur.pid \in Pid /\ cur.rec \in Record
        /\ token[cur.pid] = cur.rec
        /\ keyOf[cur.rec] = cur.key /\ vpidOf[cur.rec] = cur.vpid
        /\ cur.restarted => cur.rec \in viaRestart
    /\ pc \in {"attach", "link"} => pidOf[cur.rec] = Null
    /\ pc \in {"putName", "putPid"} =>
        /\ pidOf[cur.rec] = cur.pid
        /\ cur.pid \in alive => reaper[cur.rec] = "linked"

\* A record with a death notice to come or in progress is filed by its pid,
\* or about to be.
NoticeIsFiled ==
    \A r \in Record : reaper[r] \in {"linked", "unname", "unpid"} =>
        \/ mPidsSelfLocked[pidOf[r]] = r
        \/ pc \in {"putName", "putPid"} /\ cur.rec = r

\* A stub picked by queryFreeStubProcessLocked is picked clean: no notice is
\* outstanding for a record of that stub.
PickedClean ==
    pc = "call" /\ ~cur.restarted =>
        \A r \in Record : reaper[r] \in {"linked", "unname", "unpid"} => vpidOf[r] # cur.vpid

\* So a notice that can still take the name of a running app that was started
\* (and did not report itself) comes from another stub.
NoticeFromElsewhere ==
    \A p \in alive, s \in Record :
        /\ token[p] # Null /\ token[p] # s
        /\ reaper[s] \in {"linked", "unname"}
        => token[p] \in viaRestart \/ vpidOf[s] # stubOf[p]

\* NameLostOnlyToSibling, already true of the record between the two puts.
NameLostInPut ==
    pc = "putPid" /\ cur.pid \in alive /\ mProcessNames[cur.key] # cur.rec =>
        \/ cur.rec \in viaRestart
        \/ \E s \in Record : keyOf[s] = cur.key /\ vpidOf[s] # cur.vpid

IInv ==
    /\ TypeOK
    /\ ProcessesOK
    /\ TokensOK
    /\ RecordsOK
    /\ TablesOK
    /\ StarterOK
    /\ LiveIsListed
    /\ NamedIsListed
    /\ ListedIsWatched
    /\ NoticeIsFiled
    /\ PickedClean
    /\ NoticeFromElsewhere
    /\ NameLostInPut
    /\ NameLostOnlyToSibling

-----------------------------------------------------------------------------

\* The starter's locals in two shapes: none, and with a stub picked.
LEMMA NoLocalsType ==
    NoLocals \in Locals /\ NoLocals.pid = Null
BY DEF NoLocals, Locals

LEMMA PickedLocals ==
    ASSUME NEW l \in Locals, NEW v \in Vpid
    PROVE  LET m == [l EXCEPT !.vpid = v]
           IN  m \in Locals /\ m.vpid = v /\ m.key = l.key /\ m.pid = l.pid
BY DEF Locals

(* Every action preserves every part of IInv.                              *)

LEMMA StartProcessIfNeedStep ==
    ASSUME IInv, NEW k \in Key, StartProcessIfNeed(k)
    PROVE  IInv'
<1> USE ProcessTableAssumption DEF IInv, TypeOK, records, tables, starter, host,
           Listed, Running, Attaching
<1>1. TypeOK'
        BY DEF StarterPC, ReaperPC, Locals, Vpid, NoVpid, StartProcessIfNeed,
           NoLocals
<1>2. ProcessesOK' BY DEF ProcessesOK, StartProcessIfNeed, NoLocals
<1>3. TokensOK' BY DEF TokensOK, StartProcessIfNeed, NoLocals
<1>4. RecordsOK' BY DEF RecordsOK, StartProcessIfNeed, NoLocals
<1>5. TablesOK' BY DEF TablesOK, StartProcessIfNeed, NoLocals
<1>6. StarterOK' BY DEF StarterOK, StartProcessIfNeed, NoLocals
<1>7. LiveIsListed' BY DEF LiveIsListed, StartProcessIfNeed, NoLocals
<1>8. NamedIsListed' BY DEF NamedIsListed, StartProcessIfNeed, NoLocals
<1>9. ListedIsWatched' BY DEF ListedIsWatched, StartProcessIfNeed, NoLocals
<1>10. NoticeIsFiled' BY DEF NoticeIsFiled, StartProcessIfNeed, NoLocals
<1>11. PickedClean' BY DEF PickedClean, StartProcessIfNeed, NoLocals
<1>12. NoticeFromElsewhere' BY DEF NoticeFromElsewhere, StartProcessIfNeed, NoLocals
<1>13. NameLostInPut' BY DEF NameLostInPut, StartProcessIfNeed, NoLocals
<1>14. NameLostOnlyToSibling' BY DEF NameLostOnlyToSibling, StartProcessIfNeed, NoLocals
<1> QED BY <1>1, <1>2, <1>3, <1>4, <1>5, <1>6, <1>7, <1>8, <1>9, <1>10, <1>11, <1>12, <1>13, <1>14

LEMMA LookupStep ==
    ASSUME IInv, Lookup
    PROVE  IInv'
<1> USE ProcessTableAssumption DEF IInv, TypeOK, records, tables, starter, host,
           Listed, Running, Attaching
<1>1. TypeOK'
    <2>1. pc' \in StarterPC /\ cur' \in Locals
        BY NoLocalsType DEF Lookup, Return, StarterPC
    <2> QED BY <2>1 DEF Lookup
<1>2. ProcessesOK' BY DEF ProcessesOK, Lookup, Return, NoLocals
<1>3. TokensOK' BY DEF TokensOK, Lookup, Return, NoLocals
<1>4. RecordsOK' BY DEF RecordsOK, Lookup, Return, NoLocals
<1>5. TablesOK' BY DEF TablesOK, Lookup, Return, NoLocals
<1>6. StarterOK' BY DEF StarterOK, Lookup, Return, NoLocals
<1>7. LiveIsListed' BY DEF LiveIsListed, Lookup, Return, NoLocals
<1>8. NamedIsListed' BY DEF NamedIsListed, Lookup, Return, NoLocals
<1>9. ListedIsWatched' BY DEF ListedIsWatched, Lookup, Return, NoLocals
<1>10. NoticeIsFiled' BY DEF NoticeIsFiled, Lookup, Return, NoLocals
<1>11. PickedClean' BY DEF PickedClean, Lookup, Return, NoLocals
<1>12. NoticeFromElsewhere' BY DEF NoticeFromElsewhere, Lookup, Return, NoLocals
<1>13. NameLostInPut' BY DEF NameLostInPut, Lookup, Return, NoLocals
<1>14. NameLostOnlyToSibling' BY DEF NameLostOnlyToSibling, Lookup, Return, NoLocals
<1> QED BY <1>1, <1>2, <1>3, <1>4, <1>5, <1>6, <1>7, <1>8, <1>9, <1>10, <1>11, <1>12, <1>13, <1>14

LEMMA QueryFreeStubStep ==
    ASSUME IInv, QueryFreeStub
    PROVE  IInv'
<1> USE ProcessTableAssumption DEF IInv, TypeOK, records, tables, starter, host,
           Listed, Running, Attaching
<1>1. TypeOK'
    <2>1. pc' \in StarterPC /\ cur' \in Locals
        BY NoLocalsType, PickedLocals DEF QueryFreeStub, Return, StarterPC
    <2> QED BY <2>1 DEF QueryFreeStub
<1>2. ProcessesOK' BY DEF ProcessesOK, QueryFreeStub, FreeStub, Return, NoLocals
<1>3. TokensOK' BY DEF TokensOK, QueryFreeStub, FreeStub, Return, NoLocals
<1>4. RecordsOK' BY DEF RecordsOK, QueryFreeStub, FreeStub, Return, NoLocals
<1>5. TablesOK' BY DEF TablesOK, QueryFreeStub, FreeStub, Return, NoLocals
<1>6. StarterOK'
    <2>1. CASE Return
        BY <2>1, NoLocalsType DEF StarterOK, Return
    <2>2. CASE \E v \in Vpid : FreeStub(v) /\ cur' = [cur EXCEPT !.vpid = v] /\ pc' = "call"
        <3>1. PICK v \in Vpid : FreeStub(v) /\ cur' = [cur EXCEPT !.vpid = v] /\ pc' = "call"
            BY <2>2
        <3>2. cur'.vpid = v /\ cur'.key = cur.key /\ cur'.pid = cur.pid
            BY <3>1, PickedLocals
        <3>3. pc = "query" /\ UNCHANGED <<mPidsSelfLocked, alive, stubOf, token>>
            BY DEF QueryFreeStub
        <3>4. ASSUME NEW p \in Running(v) PROVE token[p] = Null
            \* its stub would not have been free
            <4>1. p \in Pid /\ stubOf[p] = v /\ p \in alive
                OBVIOUS
            <4>2. token[p] # Null => mPidsSelfLocked[p] = token[p] /\ vpidOf[token[p]] = v
                BY <4>1, <3>3 DEF LiveIsListed, TokensOK
            <4> QED BY <4>1, <4>2, <3>1 DEF FreeStub
        <3> QED BY <3>1, <3>2, <3>3, <3>4 DEF StarterOK
    <2> QED BY <2>1, <2>2 DEF QueryFreeStub
<1>7. LiveIsListed' BY DEF LiveIsListed, QueryFreeStub, FreeStub, Return, NoLocals
<1>8. NamedIsListed' BY DEF NamedIsListed, QueryFreeStub, FreeStub, Return, NoLocals
<1>9. ListedIsWatched' BY DEF ListedIsWatched, QueryFreeStub, FreeStub, Return, NoLocals
<1>10. NoticeIsFiled' BY DEF NoticeIsFiled, QueryFreeStub, FreeStub, Return, NoLocals
<1>11. PickedClean'
    <2> SUFFICES ASSUME pc' = "call",
                        NEW r \in Record, reaper[r] \in {"linked", "unname", "unpid"}
                 PROVE  vpidOf[r] # cur'.vpid
        BY DEF PickedClean, QueryFreeStub
    <2>1. PICK v \in Vpid : FreeStub(v) /\ cur' = [cur EXCEPT !.vpid = v] /\ pc = "query"
        BY DEF QueryFreeStub, Return
    <2>2. cur'.vpid = v
        BY <2>1, PickedLocals
    <2>3. pidOf[r] \in Pid /\ mPidsSelfLocked[pidOf[r]] = r
        BY <2>1 DEF NoticeIsFiled, RecordsOK
    <2> QED BY <2>1, <2>2, <2>3 DEF FreeStub
<1>12. NoticeFromElsewhere'
        BY DEF NoticeFromElsewhere, QueryFreeStub, FreeStub, Return, NoLocals
<1>13. NameLostInPut' BY DEF NameLostInPut, QueryFreeStub, FreeStub, Return, NoLocals
<1>14. NameLostOnlyToSibling'
        BY DEF NameLostOnlyToSibling, QueryFreeStub, FreeStub, Return, NoLocals
<1> QED BY <1>1, <1>2, <1>3, <1>4, <1>5, <1>6, <1>7, <1>8, <1>9, <1>10, <1>11, <1>12, <1>13, <1>14

LEMMA CallStubStep ==
    ASSUME IInv, NEW r \in Record, NEW p \in Pid, CallStub(r, p)
    PROVE  IInv'
<1> USE ProcessTableAssumption DEF IInv, TypeOK, records, tables, starter, host,
           Listed, Running, Attaching
<1>1. TypeOK' BY DEF StarterPC, ReaperPC, Locals, Vpid, NoVpid, CallStub, Unborn
<1>2. ProcessesOK' BY DEF ProcessesOK, StarterOK, CallStub, Unborn
<1>3. TokensOK' BY DEF TokensOK, StarterOK, CallStub, Unborn
<1>4. RecordsOK'
        BY DEF RecordsOK, ProcessesOK, StarterOK, TokensOK, Vpid, NoVpid, CallStub,
           Unborn
<1>5. TablesOK' BY DEF TablesOK, CallStub, Unborn
<1>6. StarterOK' BY DEF StarterOK, RecordsOK, TokensOK, CallStub, Unborn
<1>7. LiveIsListed' BY DEF LiveIsListed, CallStub, Unborn
<1>8. NamedIsListed'
        BY DEF NamedIsListed, ProcessesOK, RecordsOK, TokensOK, TablesOK, StarterOK,
           Vpid, NoVpid, CallStub, Unborn
<1>9. ListedIsWatched'
        BY DEF ListedIsWatched, ProcessesOK, RecordsOK, TokensOK, TablesOK,
           StarterOK, Vpid, NoVpid, CallStub, Unborn
<1>10. NoticeIsFiled' BY DEF NoticeIsFiled, CallStub, Unborn
<1>11. PickedClean' BY DEF PickedClean, CallStub, Unborn
<1>12. NoticeFromElsewhere'
        BY DEF NoticeFromElsewhere, ProcessesOK, RecordsOK, TokensOK, StarterOK,
           NoticeIsFiled, PickedClean, Vpid, NoVpid, CallStub, Unborn
<1>13. NameLostInPut' BY DEF NameLostInPut, CallStub, Unborn
<1>14. NameLostOnlyToSibling'
        BY DEF NameLostOnlyToSibling, ProcessesOK, RecordsOK, TokensOK, TablesOK,
           StarterOK, Vpid, NoVpid, CallStub, Unborn
<1> QED BY <1>1, <1>2, <1>3, <1>4, <1>5, <1>6, <1>7, <1>8, <1>9, <1>10, <1>11, <1>12, <1>13, <1>14

LEMMA CallFailsStep ==
    ASSUME IInv, CallFails
    PROVE  IInv'
<1> USE ProcessTableAssumption DEF IInv, TypeOK, records, tables, starter, host,
           Listed, Running, Attaching
<1>1. TypeOK'
        BY DEF StarterPC, ReaperPC, Locals, Vpid, NoVpid, CallFails, Return,
           NoLocals
<1>2. ProcessesOK' BY DEF ProcessesOK, CallFails, Return, NoLocals
<1>3. TokensOK' BY DEF TokensOK, CallFails, Return, NoLocals
<1>4. RecordsOK' BY DEF RecordsOK, CallFails, Return, NoLocals
<1>5. TablesOK' BY DEF TablesOK, CallFails, Return, NoLocals
<1>6. StarterOK' BY DEF StarterOK, CallFails, Return, NoLocals
<1>7. LiveIsListed' BY DEF LiveIsListed, CallFails, Return, NoLocals
<1>8. NamedIsListed' BY DEF NamedIsListed, CallFails, Return, NoLocals
<1>9. ListedIsWatched' BY DEF ListedIsWatched, CallFails, Return, NoLocals
<1>10. NoticeIsFiled' BY DEF NoticeIsFiled, CallFails, Return, NoLocals
<1>11. PickedClean' BY DEF PickedClean, CallFails, Return, NoLocals
<1>12. NoticeFromElsewhere' BY DEF NoticeFromElsewhere, CallFails, Return, NoLocals
<1>13. NameLostInPut' BY DEF NameLostInPut, CallFails, Return, NoLocals
<1>14. NameLostOnlyToSibling' BY DEF NameLostOnlyToSibling, CallFails, Return, NoLocals
<1> QED BY <1>1, <1>2, <1>3, <1>4, <1>5, <1>6, <1>7, <1>8, <1>9, <1>10, <1>11, <1>12, <1>13, <1>14

LEMMA AttachClientStep ==
    ASSUME IInv, AttachClient
    PROVE  IInv'
<1> USE ProcessTableAssumption DEF IInv, TypeOK, records, tables, starter, host,
           Listed, Running, Attaching
<1>1. TypeOK'
    <2>1. pc' \in StarterPC /\ cur' \in Locals
        BY NoLocalsType DEF AttachClient, Return, StarterPC
    <2>2. buried' \subseteq Pid
        BY DEF AttachClient, StarterOK
    <2> QED BY <2>1, <2>2 DEF AttachClient
<1>2. ProcessesOK' BY DEF ProcessesOK, AttachClient, Return, NoLocals
<1>3. TokensOK' BY DEF TokensOK, AttachClient, Return, NoLocals
<1>4. RecordsOK' BY DEF RecordsOK, AttachClient, Return, NoLocals
<1>5. TablesOK' BY DEF TablesOK, AttachClient, Return, NoLocals
<1>6. StarterOK' BY DEF StarterOK, AttachClient, Return, NoLocals
<1>7. LiveIsListed' BY DEF LiveIsListed, AttachClient, Return, NoLocals
<1>8. NamedIsListed' BY DEF NamedIsListed, AttachClient, Return, NoLocals
<1>9. ListedIsWatched' BY DEF ListedIsWatched, AttachClient, Return, NoLocals
<1>10. NoticeIsFiled' BY DEF NoticeIsFiled, AttachClient, Return, NoLocals
<1>11. PickedClean' BY DEF PickedClean, AttachClient, Return, NoLocals
<1>12. NoticeFromElsewhere' BY DEF NoticeFromElsewhere, AttachClient, Return, NoLocals
<1>13. NameLostInPut' BY DEF NameLostInPut, AttachClient, Return, NoLocals
<1>14. NameLostOnlyToSibling'
        BY DEF NameLostOnlyToSibling, AttachClient, Return, NoLocals
<1> QED BY <1>1, <1>2, <1>3, <1>4, <1>5, <1>6, <1>7, <1>8, <1>9, <1>10, <1>11, <1>12, <1>13, <1>14

LEMMA LinkToDeathStep ==
    ASSUME IInv, LinkToDeath
    PROVE  IInv'
<1> USE ProcessTableAssumption DEF IInv, TypeOK, records, tables, starter, host,
           Listed, Running, Attaching
<1>1. TypeOK' BY ZenonT(40) DEF StarterPC, ReaperPC, Locals, Vpid, NoVpid, LinkToDeath
<1>2. ProcessesOK' BY DEF ProcessesOK, LinkToDeath
<1>3. TokensOK' BY DEF TokensOK, LinkToDeath
<1>4. RecordsOK' BY DEF RecordsOK, StarterOK, LinkToDeath
<1>5. TablesOK' BY DEF TablesOK, StarterOK, LinkToDeath
<1>6. StarterOK' BY DEF StarterOK, LinkToDeath
<1>7. LiveIsListed' BY DEF LiveIsListed, LinkToDeath
<1>8. NamedIsListed'
        BY DEF NamedIsListed, ProcessesOK, RecordsOK, TokensOK, TablesOK, StarterOK,
           Vpid, NoVpid, LinkToDeath
<1>9. ListedIsWatched' BY DEF ListedIsWatched, StarterOK, LinkToDeath
<1>10. NoticeIsFiled' BY DEF NoticeIsFiled, LinkToDeath
<1>11. PickedClean' BY DEF PickedClean, LinkToDeath
<1>12. NoticeFromElsewhere' BY DEF NoticeFromElsewhere, StarterOK, LinkToDeath
<1>13. NameLostInPut' BY DEF NameLostInPut, LinkToDeath
<1>14. NameLostOnlyToSibling' BY DEF NameLostOnlyToSibling, LinkToDeath
<1> QED BY <1>1, <1>2, <1>3, <1>4, <1>5, <1>6, <1>7, <1>8, <1>9, <1>10, <1>11, <1>12, <1>13, <1>14

LEMMA PutNameStep ==
    ASSUME IInv, PutName
    PROVE  IInv'
<1> USE ProcessTableAssumption DEF IInv, TypeOK, records, tables, starter, host,
           Listed, Running, Attaching
<1>1. TypeOK' BY DEF StarterPC, ReaperPC, Locals, Vpid, NoVpid, PutName
<1>2. ProcessesOK' BY DEF ProcessesOK, PutName
<1>3. TokensOK' BY DEF TokensOK, PutName
<1>4. RecordsOK' BY DEF RecordsOK, PutName
<1>5. TablesOK' BY DEF TablesOK, StarterOK, PutName
<1>6. StarterOK' BY DEF StarterOK, PutName
<1>7. LiveIsListed' BY DEF LiveIsListed, PutName
<1>8. NamedIsListed' BY DEF NamedIsListed, StarterOK, PutName
<1>9. ListedIsWatched' BY DEF ListedIsWatched, PutName
<1>10. NoticeIsFiled' BY DEF NoticeIsFiled, PutName
<1>11. PickedClean' BY DEF PickedClean, PutName
<1>12. NoticeFromElsewhere' BY DEF NoticeFromElsewhere, PutName
<1>13. NameLostInPut' BY DEF NameLostInPut, StarterOK, PutName
<1>14. NameLostOnlyToSibling'
        BY DEF NameLostOnlyToSibling, ProcessesOK, RecordsOK, TokensOK, TablesOK,
           StarterOK, Vpid, NoVpid, PutName
<1> QED BY <1>1, <1>2, <1>3, <1>4, <1>5, <1>6, <1>7, <1>8, <1>9, <1>10, <1>11, <1>12, <1>13, <1>14

LEMMA PutPidStep ==
    ASSUME IInv, PutPid
    PROVE  IInv'
<1> USE ProcessTableAssumption DEF IInv, TypeOK, records, tables, starter, host,
           Listed, Running, Attaching
<1>1. TypeOK' BY DEF StarterPC, ReaperPC, Locals, Vpid, NoVpid, PutPid, Return, NoLocals
<1>2. ProcessesOK' BY DEF ProcessesOK, PutPid, Return, NoLocals
<1>3. TokensOK' BY DEF TokensOK, PutPid, Return, NoLocals
<1>4. RecordsOK' BY DEF RecordsOK, PutPid, Return, NoLocals
<1>5. TablesOK' BY DEF TablesOK, StarterOK, PutPid, Return, NoLocals
<1>6. StarterOK' BY DEF StarterOK, PutPid, Return, NoLocals
<1>7. LiveIsListed' BY DEF LiveIsListed, StarterOK, PutPid, Return, NoLocals
<1>8. NamedIsListed' BY DEF NamedIsListed, StarterOK, PutPid, Return, NoLocals
<1>9. ListedIsWatched' BY DEF ListedIsWatched, StarterOK, PutPid, Return, NoLocals
<1>10. NoticeIsFiled'
        BY DEF NoticeIsFiled, StarterOK, RecordsOK, TokensOK, Vpid, NoVpid, PutPid,
           Return, NoLocals
<1>11. PickedClean' BY DEF PickedClean, PutPid, Return, NoLocals
<1>12. NoticeFromElsewhere' BY DEF NoticeFromElsewhere, PutPid, Return, NoLocals
<1>13. NameLostInPut' BY DEF NameLostInPut, PutPid, Return, NoLocals
<1>14. NameLostOnlyToSibling'
        BY DEF NameLostOnlyToSibling, ProcessesOK, TokensOK, RecordsOK, TablesOK,
           StarterOK, LiveIsListed, NamedIsListed, ListedIsWatched, NoticeIsFiled,
           PickedClean, NoticeFromElsewhere, NameLostInPut, Vpid, NoVpid, PutPid,
           Return, NoLocals
<1> QED BY <1>1, <1>2, <1>3, <1>4, <1>5, <1>6, <1>7, <1>8, <1>9, <1>10, <1>11, <1>12, <1>13, <1>14

LEMMA ProcessRestartedStep ==
    ASSUME IInv, NEW p \in Pid, ProcessRestarted(p)
    PROVE  IInv'
<1> USE ProcessTableAssumption DEF IInv, TypeOK, records, tables, starter, host,
           Listed, Running, Attaching
<1>1. TypeOK'
    <2>1. restart[p] \in Key /\ stubOf[p] \in Vpid
        BY DEF ProcessRestarted, ProcessesOK
    <2>2. pc' \in StarterPC /\ cur' \in Locals
        <3>1. CASE mPidsSelfLocked[p] = Null
            <4>1. [key |-> restart[p], vpid |-> stubOf[p], rec |-> Null,
                   pid |-> Null, restarted |-> TRUE] \in Locals
                BY <2>1 DEF Locals
            <4> QED BY <3>1, <4>1 DEF ProcessRestarted, StarterPC
        <3>2. CASE mPidsSelfLocked[p] # Null
            BY <3>2 DEF ProcessRestarted
        <3> QED BY <3>1, <3>2
    <2>3. restart' \in [Pid -> Key \cup {Null}]
        BY DEF ProcessRestarted
    <2> QED BY <2>2, <2>3 DEF ProcessRestarted
<1>2. ProcessesOK' BY DEF ProcessesOK, ProcessRestarted
<1>3. TokensOK' BY DEF TokensOK, ProcessRestarted
<1>4. RecordsOK' BY DEF RecordsOK, ProcessRestarted
<1>5. TablesOK' BY DEF TablesOK, ProcessRestarted
<1>6. StarterOK'
    <2>1. CASE mPidsSelfLocked[p] = Null
        <3>1. restart[p] \in Key /\ stubOf[p] \in Vpid /\ p \in alive
            BY DEF ProcessRestarted, ProcessesOK
        <3>2. pc = "idle" /\ pc' = "call" /\ UNCHANGED <<stubOf, token, alive>>
            BY <2>1 DEF ProcessRestarted
        <3>3. cur'.key = restart[p] /\ cur'.vpid = stubOf[p] /\ cur'.pid = Null
            BY <2>1 DEF ProcessRestarted
        <3>4. token[p] = Null
            BY <2>1, <3>1, <3>2 DEF LiveIsListed
        <3>5. \A q \in Running(stubOf[p]) : q = p
            BY <3>1 DEF ProcessesOK
        <3> QED BY <3>1, <3>2, <3>3, <3>4, <3>5 DEF StarterOK
    <2>2. CASE mPidsSelfLocked[p] # Null
        BY <2>2 DEF ProcessRestarted, StarterOK
    <2> QED BY <2>1, <2>2
<1>7. LiveIsListed' BY DEF LiveIsListed, ProcessRestarted
<1>8. NamedIsListed' BY DEF NamedIsListed, ProcessRestarted
<1>9. ListedIsWatched' BY DEF ListedIsWatched, ProcessRestarted
<1>10. NoticeIsFiled' BY DEF NoticeIsFiled, ProcessRestarted
<1>11. PickedClean'
    <2>1. CASE mPidsSelfLocked[p] = Null
        <3>1. restart[p] \in Key /\ stubOf[p] \in Vpid
            BY DEF ProcessRestarted, ProcessesOK
        <3>2. cur'.restarted
            BY <2>1 DEF ProcessRestarted
        <3> QED BY <3>2 DEF PickedClean
    <2>2. CASE mPidsSelfLocked[p] # Null
        BY <2>2 DEF ProcessRestarted, PickedClean
    <2> QED BY <2>1, <2>2
<1>12. NoticeFromElsewhere' BY DEF NoticeFromElsewhere, ProcessRestarted
<1>13. NameLostInPut' BY DEF NameLostInPut, ProcessRestarted
<1>14. NameLostOnlyToSibling' BY DEF NameLostOnlyToSibling, ProcessRestarted
<1> QED BY <1>1, <1>2, <1>3, <1>4, <1>5, <1>6, <1>7, <1>8, <1>9, <1>10, <1>11, <1>12, <1>13, <1>14

LEMMA ReportRestartStep ==
    ASSUME IInv, NEW p \in Pid, NEW k \in Key, ReportRestart(p, k)
    PROVE  IInv'
<1> USE ProcessTableAssumption DEF IInv, TypeOK, records, tables, starter, host,
           Listed, Running, Attaching
<1>1. TypeOK' BY DEF StarterPC, ReaperPC, Locals, Vpid, NoVpid, ReportRestart
<1>2. ProcessesOK' BY DEF ProcessesOK, ReportRestart
<1>3. TokensOK' BY DEF TokensOK, ReportRestart
<1>4. RecordsOK' BY DEF RecordsOK, ReportRestart
<1>5. TablesOK' BY DEF TablesOK, ReportRestart
<1>6. StarterOK' BY DEF StarterOK, ReportRestart
<1>7. LiveIsListed' BY DEF LiveIsListed, ReportRestart
<1>8. NamedIsListed' BY DEF NamedIsListed, ReportRestart
<1>9. ListedIsWatched' BY DEF ListedIsWatched, ReportRestart
<1>10. NoticeIsFiled' BY DEF NoticeIsFiled, ReportRestart
<1>11. PickedClean' BY DEF PickedClean, ReportRestart
<1>12. NoticeFromElsewhere' BY DEF NoticeFromElsewhere, ReportRestart
<1>13. NameLostInPut' BY DEF NameLostInPut, ReportRestart
<1>14. NameLostOnlyToSibling' BY DEF NameLostOnlyToSibling, ReportRestart
<1> QED BY <1>1, <1>2, <1>3, <1>4, <1>5, <1>6, <1>7, <1>8, <1>9, <1>10, <1>11, <1>12, <1>13, <1>14

LEMMA RespawnStubStep ==
    ASSUME IInv, NEW v \in Vpid, NEW p \in Pid, RespawnStub(v, p)
    PROVE  IInv'
<1> USE ProcessTableAssumption DEF IInv, TypeOK, records, tables, starter, host,
           Listed, Running, Attaching
<1>1. TypeOK' BY DEF StarterPC, ReaperPC, Locals, Vpid, NoVpid, RespawnStub, Unborn
<1>2. ProcessesOK' BY DEF ProcessesOK, RespawnStub, Unborn
<1>3. TokensOK'
        BY DEF TokensOK, ProcessesOK, StarterOK, Vpid, NoVpid, RespawnStub, Unborn
<1>4. RecordsOK'
        BY DEF RecordsOK, ProcessesOK, StarterOK, TokensOK, Vpid, NoVpid,
           RespawnStub, Unborn
<1>5. TablesOK' BY DEF TablesOK, RespawnStub, Unborn
<1>6. StarterOK'
        BY DEF StarterOK, ProcessesOK, TokensOK, Vpid, NoVpid, RespawnStub, Unborn
<1>7. LiveIsListed'
        BY DEF LiveIsListed, ProcessesOK, StarterOK, TokensOK, Vpid, NoVpid,
           RespawnStub, Unborn
<1>8. NamedIsListed'
        BY DEF NamedIsListed, ProcessesOK, RecordsOK, TokensOK, TablesOK, StarterOK,
           Vpid, NoVpid, RespawnStub, Unborn
<1>9. ListedIsWatched'
        BY DEF ListedIsWatched, ProcessesOK, RecordsOK, TokensOK, TablesOK,
           StarterOK, Vpid, NoVpid, RespawnStub, Unborn
<1>10. NoticeIsFiled' BY DEF NoticeIsFiled, RespawnStub, Unborn
<1>11. PickedClean' BY DEF PickedClean, RespawnStub, Unborn
<1>12. NoticeFromElsewhere'
        BY DEF NoticeFromElsewhere, ProcessesOK, StarterOK, TokensOK, Vpid, NoVpid,
           RespawnStub, Unborn
<1>13. NameLostInPut'
        BY DEF NameLostInPut, StarterOK, RecordsOK, TokensOK, Vpid, NoVpid,
           RespawnStub, Unborn
<1>14. NameLostOnlyToSibling'
        BY DEF NameLostOnlyToSibling, ProcessesOK, RecordsOK, TokensOK, TablesOK,
           StarterOK, Vpid, NoVpid, RespawnStub, Unborn
<1> QED BY <1>1, <1>2, <1>3, <1>4, <1>5, <1>6, <1>7, <1>8, <1>9, <1>10, <1>11, <1>12, <1>13, <1>14

LEMMA KillStep ==
    ASSUME IInv, NEW P, Kill(P)
    PROVE  IInv'
<1> USE ProcessTableAssumption DEF IInv, TypeOK, records, tables, starter, host,
           Listed, Running, Attaching
<1>1. TypeOK' BY DEF StarterPC, ReaperPC, Locals, Vpid, NoVpid, Kill
<1>2. ProcessesOK' BY DEF ProcessesOK, Kill
<1>3. TokensOK' BY DEF TokensOK, Kill
<1>4. RecordsOK' BY DEF RecordsOK, Kill
<1>5. TablesOK' BY DEF TablesOK, Kill
<1>6. StarterOK' BY DEF StarterOK, Kill
<1>7. LiveIsListed' BY DEF LiveIsListed, Kill
<1>8. NamedIsListed' BY DEF NamedIsListed, Kill
<1>9. ListedIsWatched' BY DEF ListedIsWatched, Kill
<1>10. NoticeIsFiled' BY DEF NoticeIsFiled, Kill
<1>11. PickedClean' BY DEF PickedClean, Kill
<1>12. NoticeFromElsewhere' BY DEF NoticeFromElsewhere, Kill
<1>13. NameLostInPut' BY DEF NameLostInPut, Kill
<1>14. NameLostOnlyToSibling' BY DEF NameLostOnlyToSibling, Kill
<1> QED BY <1>1, <1>2, <1>3, <1>4, <1>5, <1>6, <1>7, <1>8, <1>9, <1>10, <1>11, <1>12, <1>13, <1>14

LEMMA BinderDiedStep ==
    ASSUME IInv, NEW r \in Record, BinderDied(r)
    PROVE  IInv'
<1> USE ProcessTableAssumption DEF IInv, TypeOK, records, tables, starter, host,
           Listed, Running, Attaching
<1>1. TypeOK'
        BY DEF RecordsOK, TokensOK, StarterPC, ReaperPC, Locals, Vpid, NoVpid,
           BinderDied
<1>2. ProcessesOK' BY DEF ProcessesOK, BinderDied
<1>3. TokensOK' BY DEF TokensOK, BinderDied
<1>4. RecordsOK' BY DEF RecordsOK, BinderDied
<1>5. TablesOK' BY DEF TablesOK, BinderDied
<1>6. StarterOK' BY DEF StarterOK, BinderDied
<1>7. LiveIsListed' BY DEF LiveIsListed, BinderDied
<1>8. NamedIsListed' BY DEF NamedIsListed, BinderDied
<1>9. ListedIsWatched' BY DEF ListedIsWatched, BinderDied
<1>10. NoticeIsFiled' BY DEF NoticeIsFiled, BinderDied
<1>11. PickedClean' BY DEF PickedClean, BinderDied
<1>12. NoticeFromElsewhere' BY DEF NoticeFromElsewhere, BinderDied
<1>13. NameLostInPut' BY DEF NameLostInPut, BinderDied
<1>14. NameLostOnlyToSibling' BY DEF NameLostOnlyToSibling, BinderDied
<1> QED BY <1>1, <1>2, <1>3, <1>4, <1>5, <1>6, <1>7, <1>8, <1>9, <1>10, <1>11, <1>12, <1>13, <1>14

LEMMA RemoveNameStep ==
    ASSUME IInv, NEW r \in Record, RemoveName(r)
    PROVE  IInv'
<1> USE ProcessTableAssumption DEF IInv, TypeOK, records, tables, starter, host,
           Listed, Running, Attaching
<1>1. TypeOK' BY DEF StarterPC, ReaperPC, Locals, Vpid, NoVpid, RemoveName
<1>2. ProcessesOK' BY DEF ProcessesOK, RemoveName
<1>3. TokensOK' BY DEF TokensOK, RemoveName
<1>4. RecordsOK' BY DEF RecordsOK, RemoveName
<1>5. TablesOK' BY DEF TablesOK, RemoveName
<1>6. StarterOK' BY DEF StarterOK, RemoveName
<1>7. LiveIsListed' BY DEF LiveIsListed, RemoveName
<1>8. NamedIsListed' BY DEF NamedIsListed, RemoveName
<1>9. ListedIsWatched' BY DEF ListedIsWatched, RemoveName
<1>10. NoticeIsFiled' BY DEF NoticeIsFiled, RemoveName
<1>11. PickedClean' BY DEF PickedClean, RemoveName
<1>12. NoticeFromElsewhere' BY DEF NoticeFromElsewhere, RemoveName
<1>13. NameLostInPut'
        BY DEF NameLostInPut, ProcessesOK, TokensOK, RecordsOK, TablesOK, StarterOK,
           LiveIsListed, NamedIsListed, ListedIsWatched, NoticeIsFiled, PickedClean,
           NoticeFromElsewhere, NameLostOnlyToSibling, Vpid, NoVpid, RemoveName
<1>14. NameLostOnlyToSibling'
        BY DEF NameLostOnlyToSibling, ProcessesOK, TokensOK, RecordsOK, TablesOK,
           StarterOK, LiveIsListed, NamedIsListed, ListedIsWatched, NoticeIsFiled,
           PickedClean, NoticeFromElsewhere, NameLostInPut, Vpid, NoVpid, RemoveName
<1> QED BY <1>1, <1>2, <1>3, <1>4, <1>5, <1>6, <1>7, <1>8, <1>9, <1>10, <1>11, <1>12, <1>13, <1>14

LEMMA RemovePidStep ==
    ASSUME IInv, NEW r \in Record, RemovePid(r)
    PROVE  IInv'
<1> USE ProcessTableAssumption DEF IInv, TypeOK, records, tables, starter, host,
           Listed, Running, Attaching
<1>1. TypeOK' BY DEF StarterPC, ReaperPC, Locals, Vpid, NoVpid, RemovePid
<1>2. ProcessesOK' BY DEF ProcessesOK, RemovePid
<1>3. TokensOK' BY DEF TokensOK, RemovePid
<1>4. RecordsOK' BY DEF RecordsOK, RemovePid
<1>5. TablesOK' BY DEF TablesOK, RemovePid
<1>6. StarterOK' BY DEF StarterOK, RemovePid
<1>7. LiveIsListed' BY DEF LiveIsListed, RecordsOK, TokensOK, RemovePid
<1>8. NamedIsListed' BY DEF NamedIsListed, RecordsOK, TokensOK, RemovePid
<1>9. ListedIsWatched' BY DEF ListedIsWatched, RemovePid
<1>10. NoticeIsFiled' BY DEF NoticeIsFiled, RecordsOK, TokensOK, RemovePid
<1>11. PickedClean' BY DEF PickedClean, RemovePid
<1>12. NoticeFromElsewhere' BY DEF NoticeFromElsewhere, RemovePid
<1>13. NameLostInPut' BY DEF NameLostInPut, RemovePid
<1>14. NameLostOnlyToSibling' BY DEF NameLostOnlyToSibling, RemovePid
<1> QED BY <1>1, <1>2, <1>3, <1>4, <1>5, <1>6, <1>7, <1>8, <1>9, <1>10, <1>11, <1>12, <1>13, <1>14

LEMMA Initially == Init => IInv
<1> SUFFICES ASSUME Init PROVE IInv
    OBVIOUS
<1> USE ProcessTableAssumption DEF Init
<1>1. TypeOK
    BY NoLocalsType DEF TypeOK, StarterPC, ReaperPC, NoVpid
<1>2. ProcessesOK /\ TokensOK /\ RecordsOK /\ TablesOK
    BY DEF ProcessesOK, TokensOK, RecordsOK, TablesOK
<1>3. StarterOK /\ NoticeIsFiled /\ PickedClean /\ NoticeFromElsewhere /\ NameLostInPut
    BY DEF StarterOK, NoticeIsFiled, PickedClean, NoticeFromElsewhere, NameLostInPut,
           Attaching
<1>4. LiveIsListed /\ NamedIsListed /\ ListedIsWatched /\ NameLostOnlyToSibling
    BY DEF LiveIsListed, NamedIsListed, ListedIsWatched, NameLostOnlyToSibling, Listed
<1> QED BY <1>1, <1>2, <1>3, <1>4 DEF IInv

LEMMA StutterStep ==
    ASSUME IInv, UNCHANGED vars
    PROVE  IInv'
BY DEF IInv, TypeOK, ProcessesOK, TokensOK, RecordsOK, TablesOK, StarterOK, LiveIsListed,
       NamedIsListed, ListedIsWatched, NoticeIsFiled, PickedClean, NoticeFromElsewhere,
       NameLostInPut, NameLostOnlyToSibling, vars, records, tables, starter, host,
       Listed, Running

LEMMA Inductive == IInv /\ [Next]_vars => IInv'
<1> SUFFICES ASSUME IInv, [Next]_vars PROVE IInv'
    OBVIOUS
<1>1. CASE Start
    BY <1>1, StartProcessIfNeedStep, LookupStep, QueryFreeStubStep, CallStubStep,
       CallFailsStep, AttachClientStep, LinkToDeathStep, PutNameStep, PutPidStep,
       ProcessRestartedStep DEF Start
<1>2. CASE Environment
    <2>1. ASSUME NEW p \in Pid, NEW k \in Key, ReportRestart(p, k) PROVE IInv'
        BY <2>1, ReportRestartStep
    <2>2. ASSUME NEW v \in Vpid, NEW p \in Pid, RespawnStub(v, p) PROVE IInv'
        BY <2>2, RespawnStubStep
    <2>3. ASSUME NEW p \in Pid, Die(p) PROVE IInv'
        BY <2>3, KillStep DEF Die
    <2>4. ASSUME NEW K \in SUBSET Key, KillListed(K) \/ KillNamed(K) PROVE IInv'
        BY <2>4, KillStep DEF KillListed, KillNamed
    <2> QED BY <1>2, <2>1, <2>2, <2>3, <2>4 DEF Environment
<1>3. CASE \E r \in Record : Reap(r)
    BY <1>3, BinderDiedStep, RemoveNameStep, RemovePidStep DEF Reap
<1>4. CASE UNCHANGED vars
    BY <1>4, StutterStep
<1> QED BY <1>1, <1>2, <1>3, <1>4 DEF Next

\* The inductive invariant holds throughout.
THEOREM Invariance == Spec => []IInv
<1>1. Init => IInv
    BY Initially
<1>2. IInv /\ [Next]_vars => IInv'
    BY Inductive
<1> QED BY <1>1, <1>2, PTL DEF Spec

\* The variables keep their types.
THEOREM TypeCorrect == Spec => []TypeOK
<1>1. IInv => TypeOK
    BY DEF IInv
<1> QED BY <1>1, Invariance, PTL

\* A running process that hosts an app is known to the server by its pid.
THEOREM LiveIsListedAlways == Spec => []LiveIsListed
<1>1. IInv => LiveIsListed
    BY DEF IInv
<1> QED BY <1>1, Invariance, PTL

\* A running app found by name is the one found by its pid.
THEOREM NamedIsListedAlways == Spec => []NamedIsListed
<1>1. IInv => NamedIsListed
    BY DEF IInv
<1> QED BY <1>1, Invariance, PTL

\* A running app loses its name only to a restart of its own, or to a process
\* of the same app in another stub.
THEOREM NameLostOnlyToSiblingAlways == Spec => []NameLostOnlyToSibling
<1>1. IInv => NameLostOnlyToSibling
    BY DEF IInv
<1> QED BY <1>1, Invariance, PTL

\* Every running process of the table has its death watched.
THEOREM ListedIsWatchedAlways == Spec => []ListedIsWatched
<1>1. IInv => ListedIsWatched
    BY DEF IInv
<1> QED BY <1>1, Invariance, PTL

-----------------------------------------------------------------------------
(* The process table implements the stub pool.                             *)

tenantsOf == [v \in Vpid |-> {token[p] : p \in Running(v)} \ {Null}]

\* Killing processes vacates the stubs they ran in, and no other: a stub runs
\* one process.
LEMMA KillVacates ==
    ASSUME IInv, NEW P, alive' = alive \ P, UNCHANGED <<stubOf, token>>
    PROVE  \E S \in SUBSET Vpid : Pool!Vacate(S)
<1> DEFINE S == {v \in Vpid : Running(v) \cap P # {}}
<1>1. S \in SUBSET Vpid
    OBVIOUS
<1>2. ASSUME NEW v \in Vpid
      PROVE  {token[p] : p \in Running(v)'} \ {Null} =
                IF v \in S THEN {} ELSE {token[p] : p \in Running(v)} \ {Null}
    <2>1. CASE v \in S
        <3>1. PICK q \in Running(v) : q \in P
            BY <2>1
        <3>2. Running(v)' = {}
            BY <3>1 DEF IInv, ProcessesOK, Running
        <3> QED BY <2>1, <3>2
    <2>2. CASE v \notin S
        <3>1. Running(v)' = Running(v)
            BY <2>2 DEF Running
        <3> QED BY <2>2, <3>1
    <2> QED BY <2>1, <2>2
<1>3. Pool!Vacate(S)
    BY <1>2 DEF Pool!Vacate
<1> HIDE DEF S
<1> QED BY <1>1, <1>3 DEF Pool!Vacate

\* A stub that receives a token had no tenant.
LEMMA CallStubLets ==
    ASSUME IInv, NEW r \in Record, NEW p \in Pid, CallStub(r, p)
    PROVE  Pool!Let(cur.vpid, r) /\ cur.vpid \in Vpid
<1> USE ProcessTableAssumption DEF IInv
<1>1. PICK s \in Vpid : s = cur.vpid /\ cur.pid = Null
    BY DEF CallStub, StarterOK
<1>2. \A q \in Running(s) : token[q] = Null
    BY <1>1 DEF CallStub, StarterOK, Running, TypeOK
<1>3. Running(s)' = {p}
    BY <1>1 DEF CallStub, ProcessesOK, Running, TypeOK
<1>4. ASSUME NEW v \in Vpid, v # s
      PROVE  {token'[q] : q \in Running(v)'} \ {Null} = {token[q] : q \in Running(v)} \ {Null}
    <2>1. Running(v)' = Running(v) /\ p \notin Running(v)
        BY <1>1, <1>4 DEF CallStub, Running, Unborn, TypeOK, ProcessesOK, Vpid, NoVpid
    <2>2. \A q \in Running(v) : token'[q] = token[q]
        BY <2>1 DEF CallStub, TypeOK, Running
    <2> QED BY <2>1, <2>2
<1>5. ASSUME NEW v \in Vpid
      PROVE  /\ tenantsOf[v] = {token[q] : q \in Running(v)} \ {Null}
             /\ tenantsOf'[v] = {token'[q] : q \in Running(v)'} \ {Null}
    BY DEF tenantsOf
<1>6. tenantsOf[s] = {}
    BY <1>2, <1>5
<1>7. tenantsOf'[s] = {r}
    <2>1. token'[p] = r /\ r # Null
        BY DEF CallStub, TypeOK
    <2> QED BY <1>3, <1>5, <2>1
<1>8. tenantsOf' = [tenantsOf EXCEPT ![s] = {r}]
    <2>1. \A v \in Vpid : tenantsOf'[v] = IF v = s THEN {r} ELSE tenantsOf[v]
        BY <1>4, <1>5, <1>7
    <2>2. /\ tenantsOf = [v \in Vpid |-> tenantsOf[v]]
          /\ tenantsOf' = [v \in Vpid |-> tenantsOf'[v]]
        BY DEF tenantsOf
    <2> QED BY <2>1, <2>2
<1> QED BY <1>1, <1>6, <1>8 DEF Pool!Let, tenantsOf

\* A stub that Android respawns has no tenant before or after.
LEMMA RespawnLetsNobodyIn ==
    ASSUME IInv, NEW v \in Vpid, NEW p \in Pid, RespawnStub(v, p)
    PROVE  tenantsOf' = tenantsOf
<1> USE ProcessTableAssumption DEF IInv
<1>1. token[p] = Null /\ p \notin alive
    BY DEF RespawnStub, Unborn, ProcessesOK, Vpid, NoVpid
<1>2. ASSUME NEW w \in Vpid
      PROVE  {token'[q] : q \in Running(w)'} \ {Null} = {token[q] : q \in Running(w)} \ {Null}
    <2>1. Running(w)' = Running(w) \/ Running(w)' = Running(w) \cup {p}
        BY <1>1 DEF RespawnStub, Running, TypeOK
    <2> QED BY <1>1, <2>1 DEF RespawnStub
<1> QED BY <1>2 DEF tenantsOf

LEMMA StepImplementsPool ==
    IInv /\ [Next]_vars => [Pool!Next]_tenantsOf
<1> SUFFICES ASSUME IInv, [Next]_vars PROVE Pool!Next \/ tenantsOf' = tenantsOf
    OBVIOUS
<1>1. ASSUME UNCHANGED <<alive, stubOf, token>> PROVE tenantsOf' = tenantsOf
    BY <1>1 DEF tenantsOf, Running
<1>2. ASSUME NEW P, alive' = alive \ P, UNCHANGED <<stubOf, token>> PROVE Pool!Next
    BY <1>2, KillVacates DEF Pool!Next
<1>3. CASE Start
    <2>1. ASSUME NEW k \in Key, StartProcessIfNeed(k) PROVE Pool!Next
        BY <1>2, <2>1 DEF StartProcessIfNeed
    <2>2. ASSUME NEW r \in Record, NEW p \in Pid, CallStub(r, p) PROVE Pool!Next
        BY <2>2, CallStubLets DEF Pool!Next
    <2>3. CASE Lookup \/ QueryFreeStub \/ CallFails \/ AttachClient \/ LinkToDeath
               \/ PutName \/ PutPid
        BY <1>1, <2>3 DEF Lookup, QueryFreeStub, CallFails, AttachClient, LinkToDeath,
           PutName, PutPid, host
    <2>4. ASSUME NEW p \in Pid, ProcessRestarted(p) PROVE tenantsOf' = tenantsOf
        BY <1>1, <2>4 DEF ProcessRestarted
    <2> QED BY <1>3, <2>1, <2>2, <2>3, <2>4 DEF Start
<1>4. CASE Environment
    <2>1. ASSUME NEW p \in Pid, NEW k \in Key, ReportRestart(p, k)
          PROVE  tenantsOf' = tenantsOf
        BY <1>1, <2>1 DEF ReportRestart
    <2>2. ASSUME NEW v \in Vpid, NEW p \in Pid, RespawnStub(v, p)
          PROVE  tenantsOf' = tenantsOf
        BY <2>2, RespawnLetsNobodyIn
    <2>3. ASSUME NEW P, Kill(P) PROVE Pool!Next
        BY <1>2, <2>3 DEF Kill
    <2> QED BY <1>4, <2>1, <2>2, <2>3 DEF Environment, Die, KillListed, KillNamed
<1>5. CASE \E r \in Record : Reap(r)
    BY <1>1, <1>5 DEF Reap, BinderDied, RemoveName, RemovePid, host
<1>6. CASE UNCHANGED vars
    BY <1>1, <1>6 DEF vars, host
<1> QED BY <1>3, <1>4, <1>5, <1>6 DEF Next

\* No app is ever given the process of another one that still runs: the table,
\* with all its unsynchronised removals, implements the abstract pool of stubs.
THEOREM ImplementsPool == Spec => PoolSpec
<1>1. Init => Pool!Init
    BY DEF Init, Pool!Init, Running
<1>2. IInv /\ [Next]_vars => [Pool!Next]_tenantsOf
    BY StepImplementsPool
<1> QED BY <1>1, <1>2, Invariance, PTL DEF Spec, PoolSpec, Pool!Spec, tenantsOf

-----------------------------------------------------------------------------
(* BroadcastSystem: the inductive invariant                                *)

\* The type invariant with the shapes of the queues and of what the threads
\* have in hand.
TypeInv ==
    /\ sent \subseteq Bcast
    /\ waiting \in [Receiver -> Ordered \cup {None}]
    /\ inbox \in Seq(Bcast)
    /\ stage \in {"idle", "record", "arm", "schedule"} /\ serving \in Bcast \cup {None}
    /\ stage # "idle" => serving \in Bcast
    /\ mBroadcastRecords \in [Receiver -> Bcast \cup {None}]
    /\ timeouts \in [Receiver -> Nat]
    /\ anr \in     [at : {"idle"}, of : {None}]
              \cup [at : {"removing"}, of : Receiver \cup {Other}]
              \cup [at : {"finishing"}, of : Bcast]
    /\ proc \in {"none", "up", "dead"}
    /\ mainq \in Seq(Bcast)
    /\ main \in [at : {"idle"}, of : {None}] \cup [at : {"receiving", "reporting"}, of : Bcast]
    /\ async \subseteq Bcast
    /\ report \in [Bcast -> {"none", "called", "removed", "cancelled", "done"}]
    /\ stop \in {"no", "records", "done", "failed"}
    /\ dropped \subseteq Bcast /\ swept \subseteq Bcast /\ lost \subseteq Bcast

\* A broadcast passes the inbox, the BroadcastThread and the app once, in this
\* order.
InInbox(b) == \E i \in DOMAIN inbox : inbox[i] = b
InHand(b) == stage # "idle" /\ serving = b
AtApp(b) ==
    \/ \E i \in DOMAIN mainq : mainq[i] = b
    \/ main.at # "idle" /\ main.of = b
    \/ report[b] # "none"

PassedOnce ==
    /\ \A i, j \in DOMAIN inbox : inbox[i] = inbox[j] => i = j
    /\ \A b \in Bcast : InInbox(b) => b \in sent /\ ~InHand(b) /\ ~AtApp(b)
    /\ \A b \in Bcast : InHand(b) => b \in sent /\ ~AtApp(b)
    /\ \A b \in Bcast : AtApp(b) => b \in sent

\* A record is filed under the token of its broadcast, and is gone once the
\* report of that broadcast has removed it.
RecordsFiled ==
    /\ \A t \in Receiver : mBroadcastRecords[t] # None => tokenOf[mBroadcastRecords[t]] = t
    /\ \A b \in Bcast : report[b] \in {"removed", "cancelled", "done"} =>
          mBroadcastRecords[tokenOf[b]] # b \/ lost # {}

BroadcastInv == TypeInv /\ PassedOnce /\ RecordsFiled /\ RecordIsTimed

\* What the model says of its constants.
LEMMA Constants ==
  /\ Ordered \subseteq Bcast
  /\ \A b \in Bcast : tokenOf[b] \in Receiver /\ b # None
  /\ None \notin Bcast \cup Receiver /\ Other \notin Receiver
BY BroadcastAssumption DEF BroadcastAssumption

-----------------------------------------------------------------------------
(* Init and the steps                                                      *)

\* Initially no broadcast is under way.
LEMMA InitBroadcastInv == BroadcastInit => BroadcastInv
<1> SUFFICES ASSUME BroadcastInit PROVE BroadcastInv
  OBVIOUS
<1>1. TypeInv
  BY DEF BroadcastInit, TypeInv
<1>2. PassedOnce /\ RecordsFiled /\ RecordIsTimed
  BY Constants DEF BroadcastInit, PassedOnce, RecordsFiled, RecordIsTimed, InInbox, InHand, AtApp
<1> QED BY <1>1, <1>2 DEF BroadcastInv

\* The device puts a broadcast into the inbox that it has not sent before.
LEMMA DeliverStep ==
  ASSUME BroadcastInv, NEW b \in Bcast, Deliver(b)
  PROVE  BroadcastInv'
<1> USE Constants DEF BroadcastInv, Deliver, table, app, hist
<1>1. TypeInv'
  BY DEF TypeInv
<1>2. PassedOnce'
  BY DEF TypeInv, PassedOnce, InInbox, InHand, AtApp
<1>3. RecordsFiled'
  BY DEF RecordsFiled
<1>4. RecordIsTimed'
  BY DEF TypeInv, RecordIsTimed
<1> QED BY <1>1, <1>2, <1>3, <1>4

\* The first of the inbox is finished, dropped, or taken in hand.
LEMMA OnReceiveStep ==
  ASSUME BroadcastInv, OnReceive
  PROVE  BroadcastInv'
<1> USE Constants DEF BroadcastInv, OnReceive, Finish, table, app
<1> DEFINE b == Head(inbox)
<1>1. inbox # <<>> /\ b \in Bcast /\ b = inbox[1] /\ Tail(inbox) \in Seq(Bcast)
  BY DEF TypeInv
<1>2. TypeInv'
  <2>1. inbox' \in Seq(Bcast) /\ stage' \in {"idle", "record"} /\ serving' \in Bcast \cup {None}
    BY <1>1 DEF TypeInv
  <2>2. waiting' \in [Receiver -> Ordered \cup {None}] /\ dropped' \subseteq Bcast
    BY <1>1 DEF TypeInv
  <2>3. stage' # "idle" => serving' \in Bcast
    BY <1>1 DEF TypeInv
  <2> QED BY <2>1, <2>2, <2>3 DEF TypeInv
<1>3. PassedOnce'
  <2>1. /\ inbox' = Tail(inbox) /\ inbox \in Seq(Bcast) /\ stage = "idle"
        /\ UNCHANGED <<stage, serving>> \/ serving' = b
        /\ UNCHANGED <<sent, mainq, main, report>>
    BY DEF TypeInv
  <2>2. PassedOnce
    OBVIOUS
  <2> HIDE DEF BroadcastInv, OnReceive, Finish, b
  <2>3. \A i \in DOMAIN inbox' :
           /\ i + 1 \in DOMAIN inbox /\ inbox'[i] = inbox[i + 1]
           /\ 1 \in DOMAIN inbox /\ i + 1 # 1
    BY <1>1, <2>1
  <2>4. \A i, j \in DOMAIN inbox' : inbox'[i] = inbox'[j] => i = j
    <3> SUFFICES ASSUME NEW i \in DOMAIN inbox', NEW j \in DOMAIN inbox', inbox'[i] = inbox'[j]
                 PROVE  i = j
      OBVIOUS
    <3>1. i + 1 = j + 1
      BY <2>2, <2>3 DEF PassedOnce
    <3>2. i \in Nat /\ j \in Nat
      BY <1>1, <2>1
    <3> QED BY <3>1, <3>2
  <2>5. \A c \in Bcast : InInbox(c)' => InInbox(c) /\ c # b
    BY <1>1, <2>2, <2>3 DEF PassedOnce, InInbox
  <2>6. \A c \in Bcast : InHand(c)' => c = b
    BY <2>1 DEF InHand
  <2>7. \A c \in Bcast : AtApp(c)' <=> AtApp(c)
    BY <2>1 DEF AtApp
  <2>8. InInbox(b)
    <3>1. 1 \in DOMAIN inbox
      BY <1>1, <2>1
    <3> QED BY <1>1, <3>1 DEF InInbox
  <2>9. sent' = sent
    BY <2>1
  <2> HIDE DEF InInbox, InHand, AtApp
  <2> QED BY <1>1, <2>2, <2>4, <2>5, <2>6, <2>7, <2>8, <2>9 DEF PassedOnce
<1>4. RecordsFiled' /\ RecordIsTimed'
  BY DEF RecordsFiled, RecordIsTimed
<1> QED BY <1>2, <1>3, <1>4

\* The broadcast in hand gets its record, and its timeout is about to be armed.
LEMMA RecordSentStep ==
  ASSUME BroadcastInv, RecordSent
  PROVE  BroadcastInv'
<1> USE Constants DEF BroadcastInv, RecordSent, Store, device, app
<1>1. TypeInv'
  BY DEF TypeInv
<1>2. PassedOnce'
  BY DEF TypeInv, PassedOnce, InInbox, InHand, AtApp
<1>3. RecordsFiled'
  BY DEF TypeInv, PassedOnce, RecordsFiled, InHand, AtApp
<1>4. RecordIsTimed'
  BY DEF TypeInv, RecordIsTimed
<1> QED BY <1>1, <1>2, <1>3, <1>4

\* The timeout is armed.
LEMMA ArmTimeoutStep ==
  ASSUME BroadcastInv, ArmTimeout
  PROVE  BroadcastInv'
<1> USE Constants DEF BroadcastInv, ArmTimeout, device, app, hist
<1>1. TypeInv'
  BY DEF TypeInv
<1>2. PassedOnce'
  BY DEF TypeInv, PassedOnce, InInbox, InHand, AtApp
<1>3. RecordsFiled'
  BY DEF RecordsFiled
<1>4. RecordIsTimed'
  BY DEF TypeInv, RecordIsTimed
<1> QED BY <1>1, <1>2, <1>3, <1>4

\* The broadcast in hand goes to the app.
LEMMA ScheduleReceiverStep ==
  ASSUME BroadcastInv, ScheduleReceiver
  PROVE  BroadcastInv'
<1> USE Constants DEF BroadcastInv, ScheduleReceiver, Finish, table, hist
<1>1. serving \in Bcast /\ stage = "schedule"
  BY DEF TypeInv
<1>2. CASE proc = "up"
  <2>1. mainq' = Append(mainq, serving)
    BY <1>2
  <2>2. UNCHANGED <<sent, waiting, inbox, table, proc, main, async, report, stop, hist>>
    BY <1>2
  <2>3. stage' = "idle" /\ serving' = None
    OBVIOUS
  <2>4. mainq \in Seq(Bcast)
    BY DEF TypeInv
  <2>5. mainq' \in Seq(Bcast) /\ Len(mainq') = Len(mainq) + 1
    <3> HIDE DEF ScheduleReceiver
    <3> QED BY <1>1, <2>1, <2>4
  <2>6. TypeInv'
    <3> HIDE DEF ScheduleReceiver
    <3> QED BY <2>2, <2>3, <2>5 DEF TypeInv
  <2>7. PassedOnce'
    BY <1>1, <2>1, <2>4, <2>5 DEF PassedOnce, InInbox, InHand, AtApp
  <2> QED BY <2>6, <2>7, <1>1 DEF RecordsFiled, RecordIsTimed
<1>3. CASE proc # "up"
  <2>1. TypeInv'
    BY <1>1, <1>3 DEF TypeInv
  <2>2. PassedOnce'
    BY <1>1, <1>3 DEF PassedOnce, InInbox, InHand, AtApp
  <2> QED BY <2>1, <2>2, <1>1 DEF RecordsFiled, RecordIsTimed
<1> QED BY <1>2, <1>3

\* A timeout is taken, and its handler is at work.
LEMMA TimeoutFiresStep ==
  ASSUME BroadcastInv, NEW t \in Receiver, TimeoutFires(t)
  PROVE  BroadcastInv'
<1> USE Constants DEF BroadcastInv, TimeoutFires, device, sched, app, hist
<1>1. TypeInv'
  BY DEF TypeInv
<1>2. PassedOnce'
  BY DEF TypeInv, PassedOnce, InInbox, InHand, AtApp
<1>3. RecordsFiled'
  BY DEF RecordsFiled
<1>4. RecordIsTimed'
  BY DEF TypeInv, RecordIsTimed
<1> QED BY <1>1, <1>2, <1>3, <1>4

\* A timeout of another package is at work.
LEMMA OtherTimeoutFiresStep ==
  ASSUME BroadcastInv, OtherTimeoutFires
  PROVE  BroadcastInv'
<1> USE Constants DEF BroadcastInv, OtherTimeoutFires, device, sched, app, hist
<1>1. TypeInv'
  BY DEF TypeInv
<1>2. PassedOnce'
  BY DEF TypeInv, PassedOnce, InInbox, InHand, AtApp
<1>3. RecordsFiled'
  BY DEF RecordsFiled
<1>4. RecordIsTimed'
  BY DEF TypeInv, RecordIsTimed
<1> QED BY <1>1, <1>2, <1>3, <1>4

\* A timeout of another package leaves the records of this one.
LEMMA OtherTimeoutEndsStep ==
  ASSUME BroadcastInv, OtherTimeoutEnds
  PROVE  BroadcastInv'
<1> USE Constants DEF BroadcastInv, OtherTimeoutEnds, device, sched, app, hist
<1>1. TypeInv'
  BY DEF TypeInv
<1>2. PassedOnce'
  BY DEF TypeInv, PassedOnce, InInbox, InHand, AtApp
<1>3. RecordsFiled'
  BY DEF RecordsFiled
<1>4. RecordIsTimed'
  BY DEF TypeInv, RecordIsTimed
<1> QED BY <1>1, <1>2, <1>3, <1>4

\* The record of the timeout goes, or an update of the map is lost.
LEMMA TimeoutRemovesStep ==
  ASSUME BroadcastInv, TimeoutRemoves
  PROVE  BroadcastInv'
<1> USE Constants DEF BroadcastInv, TimeoutRemoves, device, sched, app
<1> DEFINE r == mBroadcastRecords[anr.of]
<1>1. anr.of \in Receiver /\ r \in Bcast \cup {None}
  BY DEF TypeInv
<1>2. anr' \in [at : {"idle"}, of : {None}] \cup [at : {"finishing"}, of : Bcast]
  BY <1>1
<1>3. \/ mBroadcastRecords' = [mBroadcastRecords EXCEPT ![anr.of] = None] /\ lost' = lost
      \/ mBroadcastRecords' = mBroadcastRecords /\ lost' = lost \cup {r} /\ r \in Bcast
  BY <1>1
<1>4. TypeInv'
  BY <1>1, <1>2, <1>3, ZenonT(40) DEF TypeInv
<1>5. PassedOnce'
  BY DEF PassedOnce, InInbox, InHand, AtApp
<1>6. RecordsFiled'
  <2>1. \A t \in Receiver : mBroadcastRecords'[t] \in {mBroadcastRecords[t], None}
    BY <1>1, <1>3 DEF TypeInv
  <2>2. lost \subseteq lost' /\ report' = report
    BY <1>3
  <2> HIDE DEF TimeoutRemoves
  <2> QED BY <2>1, <2>2 DEF RecordsFiled
<1>7. RecordIsTimed'
  <2>1. CASE mBroadcastRecords' = [mBroadcastRecords EXCEPT ![anr.of] = None] /\ lost' = lost
    <3>2. \A t \in Receiver : mBroadcastRecords'[t] # None =>
             t # anr.of /\ mBroadcastRecords[t] = mBroadcastRecords'[t]
      BY <1>1, <2>1 DEF TypeInv
    <3>3. UNCHANGED <<timeouts, stage, serving, swept>>
      OBVIOUS
    <3> HIDE DEF TimeoutRemoves
    <3> QED BY <2>1, <3>2, <3>3 DEF RecordIsTimed
  <2>2. CASE lost' = lost \cup {r}
    <3>1. lost' # {}
      BY <2>2
    <3> HIDE DEF BroadcastInv, TimeoutRemoves
    <3> QED BY <3>1 DEF RecordIsTimed
  <2> QED BY <1>3, <2>1, <2>2
<1> QED BY <1>4, <1>5, <1>6, <1>7

\* The timeout has no record any more.
LEMMA TimeoutFinishesStep ==
  ASSUME BroadcastInv, TimeoutFinishes
  PROVE  BroadcastInv'
<1> USE Constants DEF BroadcastInv, TimeoutFinishes, Finish, sched, app, hist
<1>1. TypeInv'
  BY DEF TypeInv
<1>2. PassedOnce'
  BY DEF TypeInv, PassedOnce, InInbox, InHand, AtApp
<1>3. RecordsFiled'
  BY DEF RecordsFiled
<1>4. RecordIsTimed'
  BY DEF TypeInv, RecordIsTimed
<1> QED BY <1>1, <1>2, <1>3, <1>4

\* The record under the token of the report goes.
LEMMA ReportRemovesStep ==
  ASSUME BroadcastInv, NEW b \in Bcast, ReportRemoves(b)
  PROVE  BroadcastInv'
<1> USE Constants DEF BroadcastInv, ReportRemoves, Store, device, sched, app
<1> DEFINE r == mBroadcastRecords[tokenOf[b]]
<1>1. \/ mBroadcastRecords' = [mBroadcastRecords EXCEPT ![tokenOf[b]] = None] /\ lost' = lost
      \/ mBroadcastRecords' = mBroadcastRecords /\ lost' = lost \cup {b}
  OBVIOUS
<1>2. swept' \in {swept, swept \cup {r}} /\ swept \subseteq swept' /\ swept' \subseteq Bcast
  BY DEF TypeInv
<1>3. report' = [report EXCEPT ![b] = "removed"] /\ report[b] = "called"
  OBVIOUS
<1>4. TypeInv'
  <2>1. mBroadcastRecords' \in [Receiver -> Bcast \cup {None}] /\ lost' \subseteq Bcast
    BY <1>1 DEF TypeInv
  <2>2. report' \in [Bcast -> {"none", "called", "removed", "cancelled", "done"}]
    BY <1>3 DEF TypeInv
  <2> QED BY <1>2, <2>1, <2>2 DEF TypeInv
<1>5. PassedOnce'
  <2>1. UNCHANGED <<sent, inbox, stage, serving, mainq, main>>
    OBVIOUS
  <2>2. \A c \in Bcast : report'[c] # "none" <=> report[c] # "none"
    BY <1>3 DEF TypeInv
  <2> HIDE DEF ReportRemoves
  <2>3. \A c \in Bcast : AtApp(c)' <=> AtApp(c)
    BY <2>1, <2>2 DEF AtApp
  <2>4. \A c \in Bcast : (InInbox(c)' <=> InInbox(c)) /\ (InHand(c)' <=> InHand(c))
    BY <2>1 DEF InInbox, InHand
  <2> QED BY <2>1, <2>3, <2>4 DEF PassedOnce
<1>6. RecordsFiled'
  <2>1. \A t \in Receiver : mBroadcastRecords'[t] \in {mBroadcastRecords[t], None}
    BY <1>1 DEF TypeInv
  <2>2. lost \subseteq lost'
    BY <1>1
  <2>3. mBroadcastRecords'[tokenOf[b]] = None \/ lost' # {}
    BY <1>1 DEF TypeInv
  <2>4. \A c \in Bcast \ {b} : report'[c] = report[c]
    BY <1>3 DEF TypeInv
  <2> HIDE DEF ReportRemoves
  <2> QED BY <2>1, <2>2, <2>3, <2>4 DEF RecordsFiled
<1>7. RecordIsTimed'
  BY <1>1, <1>2 DEF TypeInv, RecordIsTimed
<1> QED BY <1>4, <1>5, <1>6, <1>7

\* The timeouts that a report cancels are those of a record of another
\* broadcast, and this is remembered.
LEMMA ReportCancelsStep ==
  ASSUME BroadcastInv, NEW b \in Bcast, ReportCancels(b)
  PROVE  BroadcastInv'
<1> USE Constants DEF BroadcastInv, ReportCancels, device, sched, app
<1>1. TypeInv'
  BY DEF TypeInv
<1>2. PassedOnce'
  BY DEF TypeInv, PassedOnce, InInbox, InHand, AtApp
<1>3. RecordsFiled'
  BY DEF TypeInv, RecordsFiled
<1>4. RecordIsTimed'
  BY DEF TypeInv, PassedOnce, RecordsFiled, RecordIsTimed, InInbox, InHand, AtApp
<1> QED BY <1>1, <1>2, <1>3, <1>4

\* A report ends.
LEMMA ReportFinishesStep ==
  ASSUME BroadcastInv, NEW b \in Bcast, ReportFinishes(b)
  PROVE  BroadcastInv'
<1> USE Constants DEF BroadcastInv, ReportFinishes, Finish, sched, table, app, hist
<1>1. TypeInv'
  BY DEF TypeInv
<1>2. PassedOnce'
  BY DEF TypeInv, PassedOnce, InInbox, InHand, AtApp
<1>3. RecordsFiled'
  BY DEF TypeInv, RecordsFiled
<1>4. RecordIsTimed'
  BY DEF RecordIsTimed
<1> QED BY <1>1, <1>2, <1>3, <1>4

\* The app takes a broadcast.
LEMMA HandleReceiverStep ==
  ASSUME BroadcastInv, HandleReceiver
  PROVE  BroadcastInv'
<1> USE Constants DEF BroadcastInv, HandleReceiver, device, sched, table, hist
<1>1. TypeInv'
  BY DEF TypeInv
<1>2. PassedOnce'
  BY DEF TypeInv, PassedOnce, InInbox, InHand, AtApp
<1>3. RecordsFiled'
  BY DEF RecordsFiled
<1>4. RecordIsTimed'
  BY DEF RecordIsTimed
<1> QED BY <1>1, <1>2, <1>3, <1>4

\* The receiver of the app returns.
LEMMA ReceiverReturnsStep ==
  ASSUME BroadcastInv, ReceiverReturns
  PROVE  BroadcastInv'
<1> USE Constants DEF BroadcastInv, ReceiverReturns, Finish, sched, table, hist
<1>1. TypeInv'
  BY DEF TypeInv
<1>2. PassedOnce'
  BY DEF TypeInv, PassedOnce, InInbox, InHand, AtApp
<1>3. RecordsFiled'
  BY DEF RecordsFiled
<1>4. RecordIsTimed'
  BY DEF RecordIsTimed
<1> QED BY <1>1, <1>2, <1>3, <1>4

\* The app finishes a broadcast by itself.
LEMMA AsyncFinishesStep ==
  ASSUME BroadcastInv, NEW b \in Bcast, AsyncFinishes(b)
  PROVE  BroadcastInv'
<1> USE Constants DEF BroadcastInv, AsyncFinishes, Finish, sched, table, hist
<1>1. TypeInv'
  BY DEF TypeInv
<1>2. PassedOnce'
  BY DEF TypeInv, PassedOnce, InInbox, InHand, AtApp
<1>3. RecordsFiled'
  BY DEF RecordsFiled
<1>4. RecordIsTimed'
  BY DEF RecordIsTimed
<1> QED BY <1>1, <1>2, <1>3, <1>4

\* The app reports.
LEMMA CallBroadcastFinishStep ==
  ASSUME BroadcastInv, CallBroadcastFinish
  PROVE  BroadcastInv'
<1> USE Constants DEF BroadcastInv, CallBroadcastFinish, device, sched, table, app, hist
<1>1. TypeInv'
  BY DEF TypeInv
<1>2. PassedOnce'
  BY DEF TypeInv, PassedOnce, InInbox, InHand, AtApp
<1>3. RecordsFiled'
  BY DEF TypeInv, PassedOnce, RecordsFiled, InHand, AtApp
<1>4. RecordIsTimed'
  BY DEF RecordIsTimed
<1> QED BY <1>1, <1>2, <1>3, <1>4

\* The main thread of the app is free again.
LEMMA BroadcastFinishReturnsStep ==
  ASSUME BroadcastInv, BroadcastFinishReturns
  PROVE  BroadcastInv'
<1> USE Constants DEF BroadcastInv, BroadcastFinishReturns, device, sched, table, hist
<1>1. TypeInv'
  BY DEF TypeInv
<1>2. PassedOnce'
  BY DEF TypeInv, PassedOnce, InInbox, InHand, AtApp
<1>3. RecordsFiled'
  BY DEF RecordsFiled
<1>4. RecordIsTimed'
  BY DEF RecordIsTimed
<1> QED BY <1>1, <1>2, <1>3, <1>4

\* The app starts.
LEMMA ProcessStartsStep ==
  ASSUME BroadcastInv, ProcessStarts
  PROVE  BroadcastInv'
<1> USE Constants DEF BroadcastInv, ProcessStarts, device, sched, table, hist
<1>1. TypeInv'
  BY DEF TypeInv
<1>2. PassedOnce'
  BY DEF TypeInv, PassedOnce, InInbox, InHand, AtApp
<1>3. RecordsFiled'
  BY DEF RecordsFiled
<1>4. RecordIsTimed'
  BY DEF TypeInv, RecordIsTimed
<1> QED BY <1>1, <1>2, <1>3, <1>4

\* The app dies.
LEMMA ProcessDiesStep ==
  ASSUME BroadcastInv, ProcessDies
  PROVE  BroadcastInv'
<1> USE Constants DEF BroadcastInv, ProcessDies, device, sched, table, hist
<1>1. TypeInv'
  BY DEF TypeInv
<1>2. PassedOnce'
  BY DEF TypeInv, PassedOnce, InInbox, InHand, AtApp
<1>3. RecordsFiled'
  BY DEF RecordsFiled
<1>4. RecordIsTimed'
  BY DEF RecordIsTimed
<1> QED BY <1>1, <1>2, <1>3, <1>4

\* The server hears of it.
LEMMA ProcessForgottenStep ==
  ASSUME BroadcastInv, ProcessForgotten
  PROVE  BroadcastInv'
<1> USE Constants DEF BroadcastInv, ProcessForgotten, device, sched, table, hist
<1>1. TypeInv'
  BY DEF TypeInv
<1>2. PassedOnce'
  BY DEF TypeInv, PassedOnce, InInbox, InHand, AtApp
<1>3. RecordsFiled'
  BY DEF RecordsFiled
<1>4. RecordIsTimed'
  BY DEF RecordIsTimed
<1> QED BY <1>1, <1>2, <1>3, <1>4

\* The records go when the package is uninstalled.
LEMMA StopAppRecordsStep ==
  ASSUME BroadcastInv, StopAppRecords
  PROVE  BroadcastInv'
<1> USE Constants DEF BroadcastInv, StopAppRecords, sched, app, hist
<1>1. TypeInv'
  BY DEF TypeInv
<1>2. PassedOnce'
  BY DEF TypeInv, PassedOnce, InInbox, InHand, AtApp
<1>3. RecordsFiled'
  BY DEF TypeInv, RecordsFiled
<1>4. RecordIsTimed'
  BY DEF TypeInv, RecordIsTimed
<1> QED BY <1>1, <1>2, <1>3, <1>4

\* So do the receivers.
LEMMA StopAppReceiversStep ==
  ASSUME BroadcastInv, StopAppReceivers
  PROVE  BroadcastInv'
<1> USE Constants DEF BroadcastInv, StopAppReceivers, sched, table, app, hist
<1>1. TypeInv'
  BY DEF TypeInv
<1>2. PassedOnce'
  BY DEF TypeInv, PassedOnce, InInbox, InHand, AtApp
<1>3. RecordsFiled'
  BY DEF RecordsFiled
<1>4. RecordIsTimed'
  BY DEF RecordIsTimed
<1> QED BY <1>1, <1>2, <1>3, <1>4

-----------------------------------------------------------------------------
(* The theorems                                                            *)

\* The invariant is inductive.
LEMMA NextBroadcastInv == BroadcastInv /\ [BroadcastNext]_broadcastVars => BroadcastInv'
<1> SUFFICES ASSUME BroadcastInv, [BroadcastNext]_broadcastVars PROVE BroadcastInv'
  OBVIOUS
<1>1. ASSUME NEW b \in Bcast, Deliver(b) PROVE BroadcastInv'
  BY <1>1, DeliverStep
<1>2. CASE OnReceive
  BY <1>2, OnReceiveStep
<1>3. CASE RecordSent
  BY <1>3, RecordSentStep
<1>4. CASE ArmTimeout
  BY <1>4, ArmTimeoutStep
<1>5. CASE ScheduleReceiver
  BY <1>5, ScheduleReceiverStep
<1>6. ASSUME NEW t \in Receiver, TimeoutFires(t) PROVE BroadcastInv'
  BY <1>6, TimeoutFiresStep
<1>7. CASE OtherTimeoutFires
  BY <1>7, OtherTimeoutFiresStep
<1>8. CASE OtherTimeoutEnds
  BY <1>8, OtherTimeoutEndsStep
<1>9. CASE TimeoutRemoves
  BY <1>9, TimeoutRemovesStep
<1>10. CASE TimeoutFinishes
  BY <1>10, TimeoutFinishesStep
<1>11. ASSUME NEW b \in Bcast, ReportRemoves(b) PROVE BroadcastInv'
  BY <1>11, ReportRemovesStep
<1>12. ASSUME NEW b \in Bcast, ReportCancels(b) PROVE BroadcastInv'
  BY <1>12, ReportCancelsStep
<1>13. ASSUME NEW b \in Bcast, ReportFinishes(b) PROVE BroadcastInv'
  BY <1>13, ReportFinishesStep
<1>14. CASE HandleReceiver
  BY <1>14, HandleReceiverStep
<1>15. CASE ReceiverReturns
  BY <1>15, ReceiverReturnsStep
<1>16. ASSUME NEW b \in Bcast, AsyncFinishes(b) PROVE BroadcastInv'
  BY <1>16, AsyncFinishesStep
<1>17. CASE CallBroadcastFinish
  BY <1>17, CallBroadcastFinishStep
<1>18. CASE BroadcastFinishReturns
  BY <1>18, BroadcastFinishReturnsStep
<1>19. CASE ProcessStarts
  BY <1>19, ProcessStartsStep
<1>20. CASE ProcessDies
  BY <1>20, ProcessDiesStep
<1>21. CASE ProcessForgotten
  BY <1>21, ProcessForgottenStep
<1>22. CASE StopAppRecords
  BY <1>22, StopAppRecordsStep
<1>23. CASE StopAppReceivers
  BY <1>23, StopAppReceiversStep
<1>24. CASE UNCHANGED broadcastVars
  BY <1>24 DEF BroadcastInv, TypeInv, PassedOnce, RecordsFiled, RecordIsTimed, InInbox, InHand, AtApp,
    broadcastVars, device, sched, table, app, hist
<1> QED
  BY <1>1, <1>2, <1>3, <1>4, <1>5, <1>6, <1>7, <1>8, <1>9, <1>10, <1>11, <1>12,
    <1>13, <1>14, <1>15, <1>16, <1>17, <1>18, <1>19, <1>20, <1>21, <1>22, <1>23, <1>24
  DEF BroadcastNext, Scheduler, Timer, Expiry, Report, App, Process, StopApp

\* The invariant holds always.
THEOREM BroadcastInvariance == BroadcastSpec => []BroadcastInv
BY InitBroadcastInv, NextBroadcastInv, PTL DEF BroadcastSpec

\* The tables, the queues and the steps of the threads keep their types,
\* whatever is sent, reported and lost.
THEOREM BroadcastTypeCorrect == BroadcastSpec => []BroadcastTypeOK
<1>1. BroadcastInv => BroadcastTypeOK
  BY DEF BroadcastInv, TypeInv, BroadcastTypeOK
<1> QED BY <1>1, BroadcastInvariance, PTL

\* A recorded broadcast has its timeout, unless the report of another broadcast
\* to the same receiver took it, or an update of the map was lost.
THEOREM RecordIsTimedAlways == BroadcastSpec => []RecordIsTimed
<1>1. BroadcastInv => RecordIsTimed
  BY DEF BroadcastInv
<1> QED BY <1>1, BroadcastInvariance, PTL
=============================================================================
