------------------------------ MODULE Records ------------------------------
(***************************************************************************)
(* The record store of the public ring (dht/node.go): the signed records   *)
(* of PeerRecords and the provider lists of ProviderRecords, kept in one   *)
(* map by the same nodes under the same lock.                              *)
(*                                                                         *)
(* storeRecord tells them apart by their bytes alone and hands each kind   *)
(* to its own handler.  The key of a peer is the hash of its public key,   *)
(* the key of a provider list that of the content: one key never has       *)
(* records of both kinds.  A behaviour is the life of one key.             *)
(***************************************************************************)
EXTENDS PeerRecords

CONSTANTS Providers, ProviderTTL, ProviderNet, ProviderEnv

ASSUME ProviderAssumption ==
  /\ ProviderTTL \in Nat \ {0} /\ ProviderNet \in Nat
  /\ ProviderEnv \subseteq {"lose", "transfer", "takeover", "delete", "tick"}
ASSUME NoBytesAssumption ==
  /\ Nil \notin Nat
  /\ Nil \notin [Providers -> Nat \cup {Nil}]
  /\ Nil \notin [enc : {"single", "list"}, list : SUBSET Providers, stamps : [Providers -> Nat \cup {Nil}]]

VARIABLES
  typ,         \* what classifyRecord makes of the bytes stored under the key
  records, times, announced, moved

ofProviders == <<records, times, announced, moved>>
ofPeers == <<rec, version, call, puts, seen>>
rvars == <<vars, ofProviders, typ>>

V == INSTANCE ProviderRecords WITH TTL <- ProviderTTL, MaxNet <- ProviderNet, Env <- ProviderEnv

(* classifyRecord: a single provider or a list of them, else a signed record. *)
classifyRecord == {"recProvider", "recPeer"}

RInit ==
  /\ Init
  /\ V!Init
  /\ typ \in classifyRecord

(* storeRecord, localRecordPut and purgeExpiredRecords go by the type. *)
storeRecord ==
  \/ typ = "recPeer" /\ Next /\ UNCHANGED <<ofProviders, typ>>
  \/ typ = "recProvider" /\ V!Next /\ UNCHANGED <<ofPeers, typ>>

RSpec == RInit /\ [][storeRecord]_rvars
----------------------------------------------------------------------------
(* As long as the ring stays the same, the owner answers with the providers *)
(* that announced themselves within the time to live: all of them,          *)
(* whichever of them announced again in between, and no others.             *)
OwnerAnswers == ~moved => V!FindProviders(owner) = {p \in Providers : V!Fresh(announced[p])}

(* Purging is invisible to readers, on every node and in every state the    *)
(* pushes, copies and deletions lead to.                                    *)
PurgeInvisible ==
  [][\A n \in Nodes : V!purgeExpiredRecords(n) => V!FindProviders(n)' = V!FindProviders(n)]_rvars
============================================================================
