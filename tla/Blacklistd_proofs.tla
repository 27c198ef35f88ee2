-------------------------- MODULE Blacklistd_proofs --------------------------
(***************************************************************************)
(* Proofs about the blacklisting daemon, for any set of addresses, any     *)
(* batch size, any pipe, and whether or not an ipset add may fail.         *)
(***************************************************************************)
EXTENDS Blacklistd, DataFacts, TLAPS

(***************************************************************************)
(* The inductive invariant.  Beside the types and the mutex it says where  *)
(* an address is on its way: Fresh, the one being queued is nowhere else;  *)
(* Batch, how far the scan of the list is: the entries before the current  *)
(* command were run, the command holds the ones up to next, and nothing    *)
(* from the command on is in the set.                                      *)
(***************************************************************************)
Scanning == dropPC \in {"scan", "run"}

Mutex ==
    /\ readPC \in {"append", "release"} => my_mutex = "readPipe"
    /\ dropPC \in {"scan", "run", "delete", "release"} => my_mutex = "blacklist"

Noted ==
    /\ readPC # "readline" => longip \in blacklisted
    /\ Range(q) \subseteq blacklisted
    /\ ipset \subseteq blacklisted

Queueing == readPC \in {"acquire", "append"} => longip \notin Range(q) \cup ipset

Distinct == \A j, k \in DOMAIN q : q[j] = q[k] => j = k

Batch ==
    /\ Scanning => /\ Len(cmd) <= next /\ next <= Len(q)
                   /\ \A k \in 1 .. Len(cmd) : cmd[k] = q[next - Len(cmd) + k]
                   /\ \A k \in next - Len(cmd) + 1 .. Len(q) : q[k] \notin ipset
                   /\ \A k \in 1 .. next - Len(cmd) : q[k] \in ipset \cup failed
    /\ ~ Scanning => cmd = << >>
    /\ dropPC = "delete" => Range(q) \subseteq ipset \cup failed
    /\ dropPC \notin {"scan", "run", "delete"} => Range(q) \cap ipset = {}
    /\ dropPC = "release" => q = << >>

Kept ==
    /\ blacklisted \subseteq
          ipset \cup failed \cup Range(q)
                \cup (IF readPC \in {"acquire", "append"} THEN {longip} ELSE {})
    /\ ~ AddMayFail => failed = {}

IInv == TypeOK /\ Mutex /\ Noted /\ Queueing /\ Distinct /\ Batch /\ Kept

-----------------------------------------------------------------------------
\* The command being built is a stretch of the list.
LEMMA CmdInQueue ==
    ASSUME IInv, Scanning
    PROVE  /\ DOMAIN cmd = 1 .. Len(cmd) /\ DOMAIN q = 1 .. Len(q)
           /\ next \in Nat /\ Len(cmd) \in 0 .. next /\ Len(q) \in Nat /\ next <= Len(q)
           /\ \A k \in 1 .. Len(cmd) : /\ next - Len(cmd) + k \in 1 .. Len(q)
                                       /\ cmd[k] = q[next - Len(cmd) + k]
           /\ Range(cmd) \subseteq Range(q)
           /\ Range(cmd) \subseteq IP
<1>1. /\ DOMAIN cmd = 1 .. Len(cmd) /\ DOMAIN q = 1 .. Len(q)
      /\ next \in Nat /\ Len(cmd) \in Nat /\ Len(q) \in Nat
  BY DEF IInv, TypeOK
<1>2. /\ Len(cmd) <= next /\ next <= Len(q)
      /\ \A k \in 1 .. Len(cmd) : cmd[k] = q[next - Len(cmd) + k]
  BY DEF IInv, Batch
<1>3. \A k \in 1 .. Len(cmd) : next - Len(cmd) + k \in 1 .. Len(q)
  BY <1>1, <1>2
<1>4. Range(cmd) \subseteq Range(q)
  BY <1>1, <1>2, <1>3 DEF Range
<1>5. Range(cmd) \subseteq IP
  BY DEF IInv, TypeOK, Range
<1> QED
  BY <1>1, <1>2, <1>3, <1>4, <1>5

\* The invariant holds initially.
LEMMA Initially == Init => IInv
BY DEF Init, IInv, TypeOK, Mutex, Noted, Queueing, Distinct, Batch, Kept, Range, Scanning

\* Every step keeps it: one step of the proof per action.
LEMMA Inductive == IInv /\ [Next]_vars => IInv'
<1> SUFFICES ASSUME IInv, [Next]_vars PROVE IInv'
  OBVIOUS
<1> USE BlacklistdAssumption
<1> USE DEF readVars, dropVars
<1>1. ASSUME NEW ip \in IP, Write(ip) PROVE IInv'
  BY <1>1 DEF Write, IInv, TypeOK, Mutex, Noted, Queueing, Distinct, Batch, Kept, Scanning
<1>2. CASE ReadLine
  <2>1. Head(pipe) \in IP /\ Tail(pipe) \in Seq(IP)
    BY <1>2 DEF ReadLine, IInv, TypeOK
  <2>2. TypeOK'
    BY <1>2, <2>1 DEF ReadLine, IInv, TypeOK
  <2>3. Mutex' /\ Noted' /\ Distinct' /\ Batch'
    BY <1>2 DEF ReadLine, IInv, TypeOK, Mutex, Noted, Distinct, Batch, Scanning
  <2>4. Queueing' /\ Kept'
    BY <1>2 DEF ReadLine, IInv, Noted, Queueing, Kept
  <2> QED
    BY <2>2, <2>3, <2>4 DEF IInv
<1>3. CASE ReadAcquire
  <2>1. TypeOK' /\ Mutex' /\ Noted' /\ Queueing' /\ Distinct' /\ Kept'
    BY <1>3 DEF ReadAcquire, IInv, TypeOK, Mutex, Noted, Queueing, Distinct, Kept
  <2>2. Batch'
    BY <1>3 DEF ReadAcquire, IInv, Batch, Scanning
  <2> QED
    BY <2>1, <2>2 DEF IInv
<1>4. CASE ReadAppend
  <2>1. longip \in IP /\ q' = Append(q, longip) /\ q' \in Seq(IP)
    BY <1>4 DEF ReadAppend, IInv, TypeOK, Noted
  <2>2. Range(q') = Range(q) \cup {longip}
    BY <2>1, AppendElements DEF IInv, TypeOK
  <2>3. dropPC \in {"check", "acquire"} /\ dropPC' = dropPC
    BY <1>4 DEF ReadAppend, IInv, TypeOK, Mutex
  <2>4. TypeOK' /\ Mutex' /\ Noted' /\ Queueing'
    BY <1>4, <2>1, <2>2, <2>3 DEF ReadAppend, IInv, TypeOK, Mutex, Noted, Queueing
  <2>5. Distinct'
    <3>1. \A k \in DOMAIN q : q[k] # longip
      BY <1>4 DEF ReadAppend, IInv, Queueing, Range
    <3> QED
      BY <3>1, <2>1 DEF IInv, TypeOK, Distinct
  <2>6. Batch'
    BY <1>4, <2>2, <2>3 DEF ReadAppend, IInv, Batch, Queueing, Scanning
  <2>7. Kept'
    BY <1>4, <2>2 DEF ReadAppend, IInv, Kept
  <2> QED
    BY <2>4, <2>5, <2>6, <2>7 DEF IInv
<1>5. CASE ReadRelease
  BY <1>5 DEF ReadRelease, IInv, TypeOK, Mutex, Noted, Queueing, Distinct, Batch, Kept, Scanning
<1>6. CASE Check
  BY <1>6 DEF Check, IInv, TypeOK, Mutex, Noted, Queueing, Distinct, Batch, Kept, Scanning
<1>7. CASE DropAcquire
  <2>1. TypeOK' /\ Mutex'
    BY <1>7 DEF DropAcquire, IInv, TypeOK, Mutex
  <2>3. Noted' /\ Queueing' /\ Distinct' /\ Kept'
    BY <1>7 DEF DropAcquire, IInv, Noted, Queueing, Distinct, Kept
  <2>2. Batch'
    BY <1>7 DEF DropAcquire, IInv, TypeOK, Batch, Scanning, Range
  <2> QED
    BY <2>1, <2>2, <2>3 DEF IInv
<1>8. CASE Scan
  <2>1. next + 1 \in 1 .. Len(q) /\ q[next + 1] \in IP
    BY <1>8 DEF Scan, IInv, TypeOK
  <2>2. TypeOK'
    BY <1>8, <2>1 DEF Scan, IInv, TypeOK
  <2>3. Mutex' /\ Noted' /\ Queueing' /\ Distinct' /\ Kept'
    BY <1>8 DEF Scan, IInv, Mutex, Noted, Queueing, Distinct, Kept
  <2>4. Batch'
    <3>1. /\ cmd' = Append(cmd, q[next + 1]) /\ next' = next + 1
          /\ q' = q /\ ipset' = ipset /\ dropPC' \in {"scan", "run"}
      BY <1>8 DEF Scan
    <3>2. /\ Len(cmd') = Len(cmd) + 1
          /\ \A k \in 1 .. Len(cmd) : cmd'[k] = cmd[k]
          /\ cmd'[Len(cmd) + 1] = q[next + 1]
      BY <3>1, <2>1 DEF IInv, TypeOK
    <3>3. next' - Len(cmd') = next - Len(cmd)
      BY <3>1, <3>2 DEF IInv, TypeOK
    <3> QED
      BY <1>8, <2>1, <3>1, <3>2, <3>3 DEF Scan, IInv, TypeOK, Batch, Scanning
  <2> QED
    BY <2>2, <2>3, <2>4 DEF IInv
<1>9. CASE EndScan
  <2>1. TypeOK' /\ Mutex' /\ Noted' /\ Queueing' /\ Distinct' /\ Kept'
    BY <1>9 DEF EndScan, IInv, TypeOK, Mutex, Noted, Queueing, Distinct, Kept
  <2>2. Batch'
    <3>1. CASE cmd # << >>
      BY <1>9, <3>1 DEF EndScan, IInv, TypeOK, Batch, Scanning
    <3>2. CASE cmd = << >>
      <4>1. Len(cmd) = 0 /\ next = Len(q)
        BY <1>9, <3>2 DEF EndScan, IInv, TypeOK, Batch, Scanning
      <4>2. Range(q) \subseteq ipset \cup failed
        BY <1>9, <4>1 DEF EndScan, IInv, TypeOK, Batch, Scanning, Range
      <4> QED
        BY <1>9, <3>2, <4>2 DEF EndScan, Batch, Scanning
    <3> QED
      BY <3>1, <3>2
  <2> QED
    BY <2>1, <2>2 DEF IInv
<1>10. CASE Run
  <2>1. PICK added \in SUBSET Range(cmd) :
            /\ ~ AddMayFail => added = Range(cmd)
            /\ ipset' = ipset \cup added
            /\ failed' = failed \cup (Range(cmd) \ added)
    BY <1>10 DEF Run
  <2>2. /\ dropPC = "run" /\ dropPC' = "scan" /\ cmd' = << >> /\ next' = next
        /\ q' = q /\ Len(cmd) \in Nat /\ next \in Nat /\ Len(q) \in Nat
    BY <1>10 DEF Run, IInv, TypeOK
  <2>3. /\ Len(cmd) <= next /\ next <= Len(q)
        /\ \A k \in 1 .. Len(cmd) : cmd[k] = q[next - Len(cmd) + k]
    BY <2>2 DEF IInv, Batch, Scanning
  <2>4. Range(cmd) \subseteq Range(q) /\ Range(cmd) \subseteq IP
    BY <2>2, CmdInQueue DEF Scanning
  <2>5. TypeOK' /\ Mutex' /\ Noted' /\ Queueing' /\ Distinct' /\ Kept'
    BY <1>10, <2>1, <2>4 DEF Run, IInv, TypeOK, Mutex, Noted, Queueing, Distinct, Kept
  <2>6. \A k \in next + 1 .. Len(q) : q[k] \notin ipset'
    <3> SUFFICES ASSUME NEW k \in next + 1 .. Len(q) PROVE q[k] \notin ipset'
      OBVIOUS
    <3>1. q[k] \notin ipset
      BY <2>2, <2>3 DEF IInv, Batch, Scanning
    <3>2. \A j \in 1 .. Len(cmd) : q[next - Len(cmd) + j] # q[k]
      BY <2>2, CmdInQueue DEF IInv, Distinct, Scanning
    <3>3. q[k] \notin Range(cmd)
      BY <3>2, <2>2, CmdInQueue DEF Range, Scanning
    <3> QED
      BY <3>1, <3>3, <2>1
  <2>7. ASSUME NEW k \in 1 .. next PROVE q[k] \in ipset' \cup failed'
    <3>1. CASE k <= next - Len(cmd)
      BY <3>1, <2>1, <2>2, <2>3, <2>7 DEF IInv, Batch, Scanning
    <3>2. CASE k > next - Len(cmd)
      <4>1. k - (next - Len(cmd)) \in 1 .. Len(cmd)
        BY <3>2, <2>2, <2>3
      <4>2. cmd[k - (next - Len(cmd))] = q[k]
        BY <4>1, <2>2, <2>3
      <4>3. q[k] \in Range(cmd)
        BY <4>1, <4>2 DEF IInv, TypeOK, Range
      <4> QED
        BY <4>3, <2>1, <2>7
    <3> QED
      BY <3>1, <3>2, <2>2
  <2>8. Batch'
    BY <2>2, <2>3, <2>6, <2>7 DEF Batch, Scanning
  <2> QED
    BY <2>5, <2>8 DEF IInv
<1>11. CASE Delete
  <2>1. Range(q') = {}
    BY <1>11 DEF Delete, Range
  <2>2. TypeOK' /\ Mutex' /\ Noted' /\ Queueing' /\ Distinct'
    BY <1>11, <2>1 DEF Delete, IInv, TypeOK, Mutex, Noted, Queueing, Distinct
  <2>3. Batch' /\ Kept'
    BY <1>11, <2>1 DEF Delete, IInv, Batch, Kept, Scanning
  <2> QED
    BY <2>2, <2>3 DEF IInv
<1>12. CASE DropRelease
  BY <1>12 DEF DropRelease, IInv, TypeOK, Mutex, Noted, Queueing, Distinct, Batch, Kept, Scanning
<1>13. CASE UNCHANGED vars
  BY <1>13 DEF vars, IInv, TypeOK, Mutex, Noted, Queueing, Distinct, Batch, Kept, Scanning
<1> QED
  BY <1>1, <1>2, <1>3, <1>4, <1>5, <1>6, <1>7, <1>8, <1>9, <1>10, <1>11, <1>12, <1>13
     DEF Next, Daemon, readPipe, blacklist

\* The invariant holds in every behaviour.
THEOREM Invariance == Spec => []IInv
BY Initially, Inductive, PTL DEF Spec

\* The types of the daemon's state.
THEOREM Typing == Spec => []TypeOK
<1>1. IInv => TypeOK
  BY DEF IInv
<1> QED
  BY <1>1, Invariance, PTL

\* The list is changed by one thread at a time.
THEOREM ListIsExclusive == Spec => []MutualExclusion
<1>1. IInv => MutualExclusion
  BY DEF IInv, Mutex, MutualExclusion
<1> QED
  BY <1>1, Invariance, PTL

\* Unless its own command fails, no address is lost on its way to the firewall.
THEOREM NoAddressLost == Spec => []NothingLost
<1>1. IInv => NothingLost
  BY DEF IInv, Kept, NothingLost
<1> QED
  BY <1>1, Invariance, PTL

\* No address is added to the set a second time.
THEOREM EachAddedOnce == Spec => []AddedOnce
<1>1. IInv => AddedOnce
  <2> SUFFICES ASSUME IInv PROVE AddedOnce
    OBVIOUS
  <2>1. \A j, k \in DOMAIN cmd : cmd[j] = cmd[k] => j = k
    <3>1. CASE Scanning
      <4>1. ASSUME NEW j \in DOMAIN cmd, NEW k \in DOMAIN cmd, cmd[j] = cmd[k]
            PROVE  next - Len(cmd) + j = next - Len(cmd) + k
        BY <3>1, <4>1, CmdInQueue DEF IInv, Distinct
      <4> QED
        BY <3>1, <4>1, CmdInQueue
    <3>2. CASE ~ Scanning
      BY <3>2 DEF IInv, Batch
    <3> QED
      BY <3>1, <3>2
  <2>2. Range(cmd) \cap ipset = {}
    <3>1. CASE Scanning
      <4>1. \A k \in next - Len(cmd) + 1 .. Len(q) : q[k] \notin ipset
        BY <3>1 DEF IInv, Batch
      <4>2. \A k \in 1 .. Len(cmd) : cmd[k] \notin ipset
        BY <3>1, <4>1, CmdInQueue
      <4> QED
        BY <3>1, <4>2, CmdInQueue DEF Range
    <3>2. CASE ~ Scanning
      BY <3>2 DEF IInv, Batch, Range
    <3> QED
      BY <3>1, <3>2
  <2> QED
    BY <2>1, <2>2 DEF IInv, Distinct, Batch, AddedOnce
<1> QED
  BY <1>1, Invariance, PTL

-----------------------------------------------------------------------------
\* Whatever fails, the daemon drops only what was written to its pipe, and for
\* good: the safety part of the abstract specification.
THEOREM DaemonIsSafe == Spec => SafePromise
<1> DEFINE written == Range(pipe) \cup blacklisted
<1>1. Init => M!Init
  BY DEF Init, M!Init, Range
<1>2. IInv /\ [Next]_vars => [M!Next]_M!vars
  <2> SUFFICES ASSUME IInv, [Next]_vars PROVE [M!Next]_M!vars
    OBVIOUS
  <2> USE DEF readVars, dropVars
  <2>1. ASSUME NEW ip \in IP, Write(ip) PROVE M!Convict(ip)
    <3>1. Range(pipe') = Range(pipe) \cup {ip}
      BY <2>1, AppendElements DEF Write, IInv, TypeOK
    <3> QED
      BY <2>1, <3>1 DEF Write, M!Convict
  <2>2. CASE ReadLine
    <3>1. Range(pipe) = Range(pipe') \cup {Head(pipe)}
      BY <2>2, TailElements DEF ReadLine, IInv, TypeOK
    <3>2. written' = written /\ ipset' = ipset
      BY <2>2, <3>1 DEF ReadLine
    <3> QED
      BY <3>2 DEF M!vars
  <2>3. CASE Run
    <3>1. PICK added \in SUBSET Range(cmd) : ipset' = ipset \cup added
      BY <2>3 DEF Run
    <3>2. Range(cmd) \subseteq Range(q) /\ Range(cmd) \subseteq IP
      BY <2>3, CmdInQueue DEF Run, Scanning
    <3>3. added \in SUBSET IP /\ added \subseteq written
      BY <3>2 DEF IInv, Noted
    <3>4. M!Drop(added)
      BY <2>3, <3>1, <3>3 DEF Run, M!Drop
    <3> QED
      BY <3>3, <3>4 DEF M!Next
  <2>4. ASSUME \/ ReadAcquire \/ ReadAppend \/ ReadRelease \/ Check \/ DropAcquire \/ Scan
               \/ EndScan \/ Delete \/ DropRelease \/ UNCHANGED vars
        PROVE  UNCHANGED M!vars
    BY <2>4 DEF ReadAcquire, ReadAppend, ReadRelease, Check, DropAcquire, Scan, EndScan,
                Delete, DropRelease, vars, M!vars
  <2> QED
    BY <2>1, <2>2, <2>3, <2>4 DEF Next, Daemon, readPipe, blacklist, M!Next
<1> QED
  BY <1>1, <1>2, Invariance, PTL DEF Spec, SafePromise
=============================================================================
