--------------------------- MODULE SourceManifest ---------------------------
(* register() of services/source_manifest.py: the manifest is one blob that  *)
(* several services read, merge their entry into and write back, each in its *)
(* own process and none with a precondition on the write.                    *)
EXTENDS FiniteSets

CONSTANTS
  Service,     \* the services that register
  Unreadable   \* a blob that is not a JSON object

VARIABLES
  manifest,  \* the blob: the services that have an entry, or Unreadable
  reg,       \* reg[s]: "merging" between s's read and its write
  merged,    \* merged[s]: what s will write
  late       \* late[s]: the entries written since s has read

vars == <<manifest, reg, merged, late>>

Init ==
  /\ manifest \in (SUBSET Service) \cup {Unreadable}
  /\ reg = [s \in Service |-> "idle"]
  /\ merged = [s \in Service |-> {}] /\ late = [s \in Service |-> {}]

\* Mutant: the entries of others are not carried over.
MergedAlone(s) == {s}

\* The entries read, or none when they cannot be parsed, and s's own.
Merged(s) == {s} \cup (IF manifest = Unreadable THEN {} ELSE manifest)

Reads(s) ==
  /\ reg[s] = "idle"
  /\ reg' = [reg EXCEPT ![s] = "merging"]
  /\ merged' = [merged EXCEPT ![s] = Merged(s)]
  /\ UNCHANGED <<manifest, late>>

\* Nothing is left of s's registration, and written is news to the others'.
Ends(s, written) ==
  /\ reg' = [reg EXCEPT ![s] = "idle"]
  /\ merged' = [merged EXCEPT ![s] = {}]
  /\ late' = [t \in Service |->
                IF reg'[t] = "merging" THEN late[t] \cup written ELSE {}]

Writes(s) ==
  /\ reg[s] = "merging"
  /\ manifest' = merged[s]
  /\ Ends(s, merged[s])

\* GCS raises, on the write; or the process ends before it.
Fails(s) ==
  /\ reg[s] = "merging"
  /\ Ends(s, {})
  /\ UNCHANGED manifest

-----------------------------------------------------------------------------
TypeOK ==
  /\ manifest \in (SUBSET Service) \cup {Unreadable}
  /\ reg \in [Service -> {"idle", "merging"}]
  /\ merged \in [Service -> SUBSET Service] /\ late \in [Service -> SUBSET Service]
  /\ \A s \in Service : reg[s] = "merging" <=> s \in merged[s]

\* An entry that could be read is lost only to a registration that had read the
\* manifest before the entry was written there.
LostToOverlapOnly ==
  [][\A s \in Service :
       Writes(s) /\ manifest # Unreadable => manifest \ manifest' \subseteq late[s]]_vars
=============================================================================
