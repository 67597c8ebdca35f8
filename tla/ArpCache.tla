------------------------------ MODULE ArpCache ------------------------------
(***************************************************************************)
(* The ARP cache of usr/liblinux/src/internal/arp_cache.c: a hash table    *)
(* with linear probing in which the address 0.0.0.0 marks an empty entry.  *)
(* Entries are never removed.                                              *)
(***************************************************************************)
EXTENDS Integers

CONSTANTS Size,      \* ARP_CACHE_SIZE
          Ips,       \* the senders' IP addresses other than 0.0.0.0
          Macs,      \* their MAC addresses
          NoMac,     \* the MAC address of a zeroed entry
          AnyIp,     \* 0.0.0.0
          Hash       \* arp_hash, any function

ASSUME SizeAssumption == Size \in Nat \ {0}
ASSUME HashAssumption == Hash \in [Ips \union {AnyIp} -> 0..(Size - 1)]
ASSUME AnyIpAssumption == AnyIp \notin Ips /\ NoMac \notin Macs

VARIABLES ip, mac,   \* the entries' two fields
          latest,    \* what was inserted last for each address
          faulted    \* insert has dereferenced NULL

vars == <<ip, mac, latest, faulted>>

Indexes == 0..(Size - 1)
Keys == Ips \union {AnyIp}

(* arp_cache_init.                                                         *)
Init ==
    /\ ip = [i \in Indexes |-> AnyIp]
    /\ mac = [i \in Indexes |-> NoMac]
    /\ latest = [a \in Ips |-> NoMac]
    /\ faulted = FALSE

(* find_entry: probe from the hash, around the table, once.                *)
Probe(h, count) == (h + count) % Size

(* Faulty: the probe stops at the end of the table.                        *)
FoundNoWrap(a, h) == \E c \in Indexes : h + c < Size /\ ip[Probe(h, c)] = a

Found(a, h) == \E c \in Indexes : ip[Probe(h, c)] = a

(* Faulty: the entry next to the one that matches.                         *)
FindEntryOff(a, h) ==
    Probe(h, 1 + CHOOSE c \in Indexes : ip[Probe(h, c)] = a)

FindEntry(a, h) ==
    Probe(h, CHOOSE c \in Indexes : /\ ip[Probe(h, c)] = a
                                    /\ \A d \in Indexes : d < c => ip[Probe(h, d)] # a)

(* Faulty: an entry of the address is not looked for.                      *)
TargetEmptyFirst(a) ==
    IF Found(AnyIp, Hash[a]) THEN FindEntry(AnyIp, Hash[a]) ELSE FindEntry(a, Hash[a])

(* The entry insert writes: the address's own, or an empty one.            *)
Target(a) ==
    IF Found(a, Hash[a]) THEN FindEntry(a, Hash[a]) ELSE FindEntry(AnyIp, Hash[a])

(* arp_cache_insert: with neither, find_empty_entry's NULL is written to.  *)
Insert(a, m) ==
    /\ ~faulted
    /\ IF Found(a, Hash[a]) \/ Found(AnyIp, Hash[a])
       THEN /\ ip' = [ip EXCEPT ![Target(a)] = a]
            /\ mac' = [mac EXCEPT ![Target(a)] = m]
            /\ latest' = IF a = AnyIp THEN latest ELSE [latest EXCEPT ![a] = m]
            /\ UNCHANGED faulted
       ELSE faulted' = TRUE /\ UNCHANGED <<ip, mac, latest>>

(* arp_cache_lookup.                                                       *)
Lookup(a) == IF Found(a, Hash[a]) THEN mac[FindEntry(a, Hash[a])] ELSE NoMac

Next == \E a \in Keys, m \in Macs : Insert(a, m)

Spec == Init /\ [][Next]_vars
-----------------------------------------------------------------------------
(* The entries hold addresses, and the ghost variable is well typed.       *)
TypeOK ==
    /\ ip \in [Indexes -> Keys]
    /\ mac \in [Indexes -> Macs \union {NoMac}]
    /\ latest \in [Ips -> Macs \union {NoMac}]
    /\ faulted \in BOOLEAN

(* No address has two entries: arp_cache_insert takes an empty entry only  *)
(* when the whole table, not just the probes up to a gap, lacks the one.   *)
OneEntry == \A i, j \in Indexes : ip[i] = ip[j] /\ ip[i] # AnyIp => i = j

(* arp_cache_lookup finds the MAC address that arp_cache_insert was last   *)
(* given for an IP address, and NULL for one it was never given, whatever  *)
(* the collisions, whatever the order of inserts, and also when inserts    *)
(* for 0.0.0.0 have written to entries that stay empty.                    *)
LookupIsLatest == \A a \in Ips : Lookup(a) = latest[a]

(* arp_cache_insert changes what arp_cache_lookup finds for its sender and *)
(* for nobody else: no insert, for 0.0.0.0 included, evicts or hides what  *)
(* is known of another address.  NetPath takes the cache for a set of      *)
(* senders that grows by one.                                              *)
InsertIsLocal ==
    [][\A a \in Keys, m \in Macs : Insert(a, m) =>
         \A b \in Ips : Lookup(b)' = IF b = a /\ ~faulted' THEN m ELSE Lookup(b)]_vars

(* arp_cache_insert dereferences NULL only when every entry holds an       *)
(* address some sender was seen with: the probe misses no empty entry.     *)
FaultsOnlyWhenFull ==
    faulted => \A i \in Indexes : ip[i] # AnyIp /\ latest[ip[i]] # NoMac
=============================================================================
