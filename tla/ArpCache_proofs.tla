-------------------------- MODULE ArpCache_proofs --------------------------
(***************************************************************************)
(* For every table size and every hash function, the ARP cache returns the *)
(* MAC address last inserted for an IP address.                            *)
(***************************************************************************)
EXTENDS ArpCache, WellFoundedInduction, TLAPS

(* (h + c) % Size stays in the table, and reaches every entry: what makes  *)
(* find_entry's probe exhaustive wherever it starts.                       *)
LEMMA ModRange ==
    ASSUME NEW n \in Nat \ {0}, NEW x \in Nat
    PROVE  x % n \in 0..(n - 1)
  OBVIOUS

LEMMA ModReach ==
    ASSUME NEW n \in Nat \ {0}, NEW h \in 0..(n - 1), NEW i \in 0..(n - 1)
    PROVE  \E c \in 0..(n - 1) : (h + c) % n = i
<1>1. CASE h <= i
  <2>1. i - h \in 0..(n - 1) /\ h + (i - h) = i
    BY <1>1
  <2>2. i % n = i
    OBVIOUS
  <2> QED
    BY <2>1, <2>2, Zenon
<1>2. CASE h > i
  <2>1. (i + n) - h \in 0..(n - 1) /\ h + ((i + n) - h) = i + n
    BY <1>2
  <2>2. (i + n) % n = i
    OBVIOUS
  <2> QED
    BY <2>1, <2>2
<1> QED
  BY <1>1, <1>2

(* A set of naturals that is not empty has a least element.                *)
LEMMA LeastNatural ==
    ASSUME NEW T, T \subseteq Nat, T # {}
    PROVE  \E x \in T : \A y \in T : ~(y < x)
<1>1. PICK x \in T : \A y \in T : <<y, x>> \notin OpToRel(<, Nat)
  BY NatLessThanWellFounded, WFMin, Zenon
<1>2. \A y \in T : ~(y < x)
  BY <1>1, Zenon DEF OpToRel
<1> QED
  BY <1>2

(* find_entry finds an entry of the address it is given, and finds one     *)
(* whenever there is one anywhere in the table.                            *)
LEMMA FindEntryFinds ==
    ASSUME NEW a, NEW h \in Indexes, Found(a, h)
    PROVE  FindEntry(a, h) \in Indexes /\ ip[FindEntry(a, h)] = a
<1> DEFINE T == {c \in Indexes : ip[Probe(h, c)] = a}
<1>1. T \subseteq Nat /\ T # {}
  BY SizeAssumption DEF Found, Indexes
<1>2. PICK x \in T : \A y \in T : ~(y < x)
  BY <1>1, LeastNatural, Zenon
<1> DEFINE Least(c) == /\ ip[Probe(h, c)] = a
                       /\ \A d \in Indexes : d < c => ip[Probe(h, d)] # a
<1>3. x \in Indexes /\ Least(x)
  BY <1>2
<1> HIDE DEF Least
<1> DEFINE e == CHOOSE c \in Indexes : Least(c)
<1>4. e \in Indexes /\ Least(e)
  BY <1>3
<1>5. FindEntry(a, h) = Probe(h, e)
  BY DEF FindEntry, Least
<1>6. Probe(h, e) \in Indexes
  <2>1. h + e \in Nat
    BY <1>4, SizeAssumption DEF Indexes
  <2> QED
    BY <2>1, ModRange, SizeAssumption, Zenon DEF Probe, Indexes
<1>7. ip[Probe(h, e)] = a
  BY <1>4 DEF Least
<1> QED
  BY <1>5, <1>6, <1>7

LEMMA FoundAnywhere ==
    ASSUME NEW i \in Indexes, NEW h \in Indexes
    PROVE  Found(ip[i], h)
<1>1. \E c \in Indexes : (h + c) % Size = i
  BY ModReach, SizeAssumption, Zenon DEF Indexes
<1> QED
  BY <1>1 DEF Found, Probe

(* The entries and the ghost variable agree: an entry of an address holds  *)
(* its latest MAC address, and an address that was inserted has an entry.  *)
Agree ==
    /\ \A i \in Indexes : ip[i] # AnyIp => /\ mac[i] = latest[ip[i]]
                                         /\ latest[ip[i]] # NoMac
    /\ \A a \in Ips : latest[a] # NoMac => \E i \in Indexes : ip[i] = a

Full == \A i \in Indexes : ip[i] # AnyIp

IInv == TypeOK /\ OneEntry /\ Agree /\ (faulted => Full)

LEMMA InitIInv == Init => IInv
  BY AnyIpAssumption, Zenon DEF Init, IInv, TypeOK, OneEntry, Agree, Full, Keys

(* Where arp_cache_insert writes: an entry of the address, or, when there  *)
(* is none in the whole table, an empty one.                               *)
LEMMA TargetIs ==
    ASSUME TypeOK, NEW a \in Keys, Found(a, Hash[a]) \/ Found(AnyIp, Hash[a])
    PROVE  /\ Target(a) \in Indexes
           /\ ip[Target(a)] \in {a, AnyIp}
           /\ ip[Target(a)] # a => \A i \in Indexes : ip[i] # a
<1>1. Hash[a] \in Indexes
  BY HashAssumption DEF Keys, Indexes
<1>2. CASE Found(a, Hash[a])
  BY <1>1, <1>2, FindEntryFinds DEF Target
<1>3. CASE ~Found(a, Hash[a])
  <2>1. Target(a) \in Indexes /\ ip[Target(a)] = AnyIp
    BY <1>1, <1>3, FindEntryFinds DEF Target
  <2>2. \A i \in Indexes : ip[i] # a
    BY <1>1, <1>3, FoundAnywhere
  <2> QED
    BY <2>1, <2>2
<1> QED
  BY <1>2, <1>3

LEMMA InsertIInv ==
    ASSUME IInv, NEW a \in Keys, NEW m \in Macs, Insert(a, m)
    PROVE  IInv'
<1> USE DEF IInv
<1>1. CASE Found(a, Hash[a]) \/ Found(AnyIp, Hash[a])
  <2> DEFINE t == Target(a)
  <2>1. /\ t \in Indexes
        /\ ip[t] \in {a, AnyIp}
        /\ ip[t] # a => \A i \in Indexes : ip[i] # a
    BY <1>1, TargetIs
  <2>2. /\ ip' = [ip EXCEPT ![t] = a]
        /\ mac' = [mac EXCEPT ![t] = m]
        /\ latest' = IF a = AnyIp THEN latest ELSE [latest EXCEPT ![a] = m]
        /\ faulted' = faulted /\ ~faulted
    BY <1>1 DEF Insert
  <2> HIDE DEF t
  <2>3. TypeOK'
    BY <2>1, <2>2 DEF TypeOK, Keys
  <2>4. OneEntry'
    BY <2>1, <2>2 DEF TypeOK, OneEntry
  <2>5. \A i \in Indexes : ip'[i] # AnyIp => /\ mac'[i] = latest'[ip'[i]]
                                           /\ latest'[ip'[i]] # NoMac
    <3> SUFFICES ASSUME NEW i \in Indexes, ip'[i] # AnyIp
                 PROVE  mac'[i] = latest'[ip'[i]] /\ latest'[ip'[i]] # NoMac
      OBVIOUS
    <3>1. CASE i = t
      BY <2>1, <2>2, <3>1, AnyIpAssumption DEF TypeOK, Keys
    <3>2. CASE i # t
      <4>1. ip'[i] = ip[i] /\ mac'[i] = mac[i] /\ ip[i] \in Ips
        BY <2>1, <2>2, <3>2 DEF TypeOK, Keys
      <4>2. ip[i] # a
        BY <2>1, <3>2, <4>1, AnyIpAssumption DEF OneEntry
      <4>3. latest'[ip[i]] = latest[ip[i]]
        BY <2>2, <4>1, <4>2 DEF TypeOK
      <4> QED
        BY <4>1, <4>3, AnyIpAssumption DEF Agree
    <3> QED
      BY <3>1, <3>2
  <2>6. \A b \in Ips : latest'[b] # NoMac => \E i \in Indexes : ip'[i] = b
    <3> SUFFICES ASSUME NEW b \in Ips, latest'[b] # NoMac
                 PROVE  \E i \in Indexes : ip'[i] = b
      OBVIOUS
    <3>1. CASE b = a
      BY <2>1, <2>2, <3>1 DEF TypeOK
    <3>2. CASE b # a
      <4>1. latest[b] # NoMac
        BY <2>2, <3>2 DEF TypeOK
      <4>2. PICK i \in Indexes : ip[i] = b
        BY <4>1 DEF Agree
      <4>3. i # t
        BY <2>1, <3>2, <4>2, AnyIpAssumption
      <4> QED
        BY <2>2, <4>2, <4>3 DEF TypeOK
    <3> QED
      BY <3>1, <3>2
  <2> QED
    BY <2>2, <2>3, <2>4, <2>5, <2>6 DEF Agree
<1>2. CASE ~(Found(a, Hash[a]) \/ Found(AnyIp, Hash[a]))
  <2>1. Full
    <3>1. Hash[a] \in Indexes
      BY HashAssumption DEF Keys, Indexes
    <3> QED
      BY <1>2, <3>1, FoundAnywhere DEF Full
  <2>2. UNCHANGED <<ip, mac, latest>> /\ faulted' = TRUE
    BY <1>2 DEF Insert
  <2> QED
    BY <2>1, <2>2 DEF TypeOK, OneEntry, Agree, Full
<1> QED
  BY <1>1, <1>2

LEMMA StepIInv == IInv /\ [Next]_vars => IInv'
<1> SUFFICES ASSUME IInv, [Next]_vars PROVE IInv'
  OBVIOUS
<1>1. CASE Next
  BY <1>1, InsertIInv DEF Next
<1>2. CASE UNCHANGED vars
  BY <1>2 DEF vars, IInv, TypeOK, OneEntry, Agree, Full
<1> QED
  BY <1>1, <1>2

(* The inductive invariant holds in every reachable state of the cache.    *)
THEOREM CacheInvariant == Spec => []IInv
  BY InitIInv, StepIInv, PTL DEF Spec

(* arp_cache_insert never gives an address a second entry, for every size  *)
(* of the table and every hash function.                                   *)
THEOREM AddressesHaveOneEntry == Spec => []OneEntry
<1>1. IInv => OneEntry
  BY DEF IInv
<1> QED
  BY CacheInvariant, <1>1, PTL

LEMMA InvLookup == IInv => LookupIsLatest
<1> SUFFICES ASSUME IInv, NEW a \in Ips PROVE Lookup(a) = latest[a]
  BY DEF LookupIsLatest
<1>1. Hash[a] \in Indexes /\ a # AnyIp
  BY HashAssumption, AnyIpAssumption DEF Indexes
<1>2. CASE Found(a, Hash[a])
  <2>1. FindEntry(a, Hash[a]) \in Indexes /\ ip[FindEntry(a, Hash[a])] = a
    BY <1>1, <1>2, FindEntryFinds
  <2> QED
    BY <1>1, <1>2, <2>1 DEF Lookup, IInv, Agree
<1>3. CASE ~Found(a, Hash[a])
  <2>1. \A i \in Indexes : ip[i] # a
    BY <1>1, <1>3, FoundAnywhere
  <2> QED
    BY <1>3, <2>1 DEF Lookup, IInv, Agree
<1> QED
  BY <1>2, <1>3

(* arp_cache_lookup returns what arp_cache_insert was last given, for      *)
(* every size of the table and every hash function.                        *)
THEOREM LookupReturnsLatest == Spec => []LookupIsLatest
  BY CacheInvariant, InvLookup, PTL

(* An insert changes the answer of arp_cache_lookup for its own address    *)
(* only, for every size of the table and every hash function.              *)
THEOREM InsertsDoNotInterfere == Spec => InsertIsLocal
<1> DEFINE Step == \A a \in Keys, m \in Macs : Insert(a, m) =>
                     \A b \in Ips : Lookup(b)' = IF b = a /\ ~faulted' THEN m ELSE Lookup(b)
<1>1. IInv /\ [Next]_vars => [Step]_vars
  <2> SUFFICES ASSUME IInv, Next, NEW a \in Keys, NEW m \in Macs, Insert(a, m), NEW b \in Ips
               PROVE  Lookup(b)' = IF b = a /\ ~faulted' THEN m ELSE Lookup(b)
    OBVIOUS
  <2>1. IInv'
    BY StepIInv
  <2>2. Lookup(b) = latest[b]
    BY InvLookup DEF LookupIsLatest
  <2>3. (IInv => LookupIsLatest)'
    BY InvLookup, PTL
  <2>4. Lookup(b)' = latest'[b]
    BY <2>1, <2>3 DEF LookupIsLatest
  <2>5. latest'[b] = IF b = a /\ ~faulted' THEN m ELSE latest[b]
    BY AnyIpAssumption DEF Insert, IInv, TypeOK, Keys
  <2> QED
    BY <2>2, <2>4, <2>5
<1> HIDE DEF Step
<1>2. Spec => [][Step]_vars
  BY <1>1, CacheInvariant, PTL DEF Spec
<1> QED
  BY <1>2 DEF Step, InsertIsLocal

(* arp_cache_insert reaches a NULL entry only when the table is full.      *)
THEOREM FaultMeansFull == Spec => []FaultsOnlyWhenFull
<1>1. IInv => FaultsOnlyWhenFull
  BY DEF IInv, Full, Agree, FaultsOnlyWhenFull
<1> QED
  BY CacheInvariant, <1>1, PTL
=============================================================================
