------------------------------ MODULE CaStore ------------------------------
(***************************************************************************)
(* The Root CA on disk: the generator (ca_generator.py), the copies the    *)
(* proxy container reads, and the merged trust bundle the agents are given *)
(* (commands/ca.py).  Every command that needs the CA runs them in its own *)
(* process, on one directory, with no lock; a process may die between any  *)
(* two of its calls.  `alone` says whether the processes overlap, `disk`   *)
(* whether mitmproxy's copies can be written: an OSError there is          *)
(* suppressed, and the generator returns all the same.                     *)
(*                                                                         *)
(* A pair is a number; a file holds the pair its text is from.  Of file    *)
(* times only what the freshness test compares is kept, and that follows   *)
(* the order of the writes only while the clock does: two writes may have  *)
(* one time, and the clock may be stepped back between them.               *)
(***************************************************************************)
EXTENDS Naturals, Sequences

CONSTANTS
    Makers,       \* processes
    MaxPairs,     \* bound on pairs made
    MaxRuns       \* bound on what the processes are told to do

ASSUME CaAssumption == MaxPairs \in Nat /\ MaxRuns \in Nat

Pairs == 1..MaxPairs

VARIABLES
    alone,      \* whether a process begins only when no other is at work
    disk,       \* whether mitmproxy's copies can always be written
    file,       \* holon-root-ca.crt, .key, mitmproxy-ca-cert.pem
    pem,        \* mitmproxy-ca.pem: what its key and its certificate are of
    bundle,     \* holon-merged-ca-bundle.crt
    age,        \* the bundle beside mitmproxy-ca-cert.pem (AgeValues)
    expiring,   \* pairs within 30 days of their end
    made,       \* pairs made
    runs,       \* processes started
    maker       \* each process
caVars == <<alone, disk, file, pem, bundle, age, expiring, made, runs, maker>>
dirVars == <<file, pem, bundle, age>>

Absent == 0
Empty == MaxPairs + 1       \* there, and cut short
Contents == {Absent, Empty} \cup Pairs
Files == {"crt", "key", "mcert"}

\* By its time, a bundle is at least as new as the certificate and was written
\* after it, or seems so although the certificate was written after it, or is
\* older.
AgeValues == {"newer", "tied", "older"}

MakerStages == {"idle", "look", "judge", "rm crt", "rm key", "rm mcert", "rm pem", "truncate", "keyout",
           "certout", "verify", "copy", "copying", "read", "open", "write", "made",
           "bundle", "compose", "tmp", "replace", "trusts"}

MakerRecord == [stage : MakerStages, pair : 0..MaxPairs, key : Contents, cert : Contents, age : AgeValues]

Idle == [stage |-> "idle", pair |-> 0, key |-> Absent, cert |-> Absent, age |-> "older"]

CaInit ==
    /\ alone \in BOOLEAN /\ disk \in BOOLEAN
    /\ file = [f \in Files |-> Absent]
    /\ pem = [key |-> Absent, cert |-> Absent]
    /\ bundle = Absent /\ age = "older"
    /\ expiring = {} /\ made = 0 /\ runs = 0
    /\ maker = [m \in Makers |-> Idle]

AtWork == {m \in Makers : maker[m].stage # "idle"}
Step(m, from, to) == maker[m].stage = from /\ maker' = [maker EXCEPT ![m].stage = to]
\* A RuntimeError: the command ends (init-ca) or goes on without (start, run-agent).
Raises(m, from) == maker[m].stage = from /\ maker' = [maker EXCEPT ![m] = Idle]
Settings == <<alone, disk, expiring, runs>>
-----------------------------------------------------------------------------
(* Who calls. *)

\* init-ca always generates; run-agent when a file of mitmproxy's is missing;
\* start when its certificate is.
NeedsCa(command) ==
    \/ command = "init-ca"
    \/ command = "run-agent" /\ (file["mcert"] = Absent \/ pem.key = Absent)
    \/ command = "start" /\ file["mcert"] = Absent

Launch(m, command) ==
    /\ m \notin AtWork
    /\ alone => AtWork = {}
    /\ runs < MaxRuns /\ runs' = runs + 1
    /\ \/ command # "env" /\ NeedsCa(command) /\ maker' = [maker EXCEPT ![m].stage = "look"]
       \/ command = "env" /\ maker' = [maker EXCEPT ![m].stage = "bundle"]
    /\ UNCHANGED <<alone, disk, dirVars, expiring, made>>
-----------------------------------------------------------------------------
(* _ensure_root_ca *)

Look(m) ==
    /\ Step(m, "look", IF Absent \in {file["crt"], file["key"]} THEN "truncate" ELSE "judge")
    /\ UNCHANGED <<dirVars, made, Settings>>

\* _assert_valid_cert, _expires_within
Judge(m) ==
    /\ CASE file["crt"] \in {Absent, Empty} -> Raises(m, "judge")
         [] file["crt"] \in expiring -> Step(m, "judge", "rm crt")
         [] OTHER -> Step(m, "judge", "copy")
    /\ UNCHANGED <<dirVars, made, Settings>>

\* _remove_cached_ca, a file at a time.
Remove(m) ==
    /\ \/ Step(m, "rm crt", "rm key") /\ file' = [file EXCEPT !["crt"] = Absent] /\ pem' = pem
       \/ Step(m, "rm key", "rm mcert") /\ file' = [file EXCEPT !["key"] = Absent] /\ pem' = pem
       \/ Step(m, "rm mcert", "rm pem") /\ file' = [file EXCEPT !["mcert"] = Absent] /\ pem' = pem
       \/ Step(m, "rm pem", "truncate") /\ pem' = [key |-> Absent, cert |-> Absent] /\ file' = file
    /\ UNCHANGED <<bundle, age, made, Settings>>

\* _generate: the key file is made empty, then openssl writes the pair.
TruncateKey(m) ==
    /\ Step(m, "truncate", "keyout")
    /\ file' = [file EXCEPT !["key"] = Empty]
    /\ UNCHANGED <<pem, bundle, age, made, Settings>>

\* Mutant: the -keyout of another file.
MutantWriteKey(m) ==
    /\ maker[m].stage = "keyout"
    /\ made < MaxPairs /\ made' = made + 1
    /\ maker' = [maker EXCEPT ![m].stage = "certout", ![m].pair = made + 1]
    /\ UNCHANGED <<dirVars, Settings>>

WriteKey(m) ==
    /\ maker[m].stage = "keyout"
    /\ made < MaxPairs /\ made' = made + 1
    /\ maker' = [maker EXCEPT ![m].stage = "certout", ![m].pair = made + 1]
    /\ file' = [file EXCEPT !["key"] = made + 1]
    /\ UNCHANGED <<pem, bundle, age, Settings>>

WriteCert(m) ==
    /\ Step(m, "certout", "verify")
    /\ file' = [file EXCEPT !["crt"] = maker[m].pair]
    /\ UNCHANGED <<pem, bundle, age, made, Settings>>

Verify(m) ==
    /\ IF file["crt"] \in Pairs THEN Step(m, "verify", "copy") ELSE Raises(m, "verify")
    /\ UNCHANGED <<dirVars, made, Settings>>

OpensslFails(m) ==
    /\ Raises(m, "keyout") \/ Raises(m, "certout")
    /\ UNCHANGED <<dirVars, made, Settings>>

\* A write of mitmproxy-ca-cert.pem outdates every bundle there is, the temporary
\* ones included; by their times they may be at least as new all the same.
Outdated == {"tied", "older"}

Outdates(m, next, cert) ==
    /\ \E tmp \in [Makers -> Outdated] :
          /\ \A w \in Makers : maker[w].stage # "replace" => tmp[w] = "older"
          /\ maker' = [w \in Makers |->
                IF w = m THEN [maker[w] EXCEPT !.age = tmp[w], !.stage = next, !.cert = cert]
                         ELSE [maker[w] EXCEPT !.age = tmp[w]]]
    /\ age' \in IF bundle = Absent THEN {"older"} ELSE Outdated

\* _sync_mitmproxy_ca: copyfile opens and empties the copy, then fills it.
StartCopy(m) ==
    /\ maker[m].stage = "copy"
    /\ IF file["crt"] = Absent
       THEN Step(m, "copy", "read") /\ UNCHANGED <<file, age>>
       ELSE Outdates(m, "copying", file["crt"]) /\ file' = [file EXCEPT !["mcert"] = Empty]
    /\ UNCHANGED <<pem, bundle, made, Settings>>

FinishCopy(m) ==
    /\ maker[m].stage = "copying"
    /\ Outdates(m, "read", maker[m].cert)
    /\ file' = [file EXCEPT !["mcert"] = IF file["crt"] = Absent THEN maker[m].cert ELSE file["crt"]]
    /\ UNCHANGED <<pem, bundle, made, Settings>>

\* Key and certificate are read, and the combined file is rewritten in place.
ReadPair(m) ==
    /\ maker[m].stage = "read"
    /\ maker' = [maker EXCEPT ![m].key = file["key"], ![m].cert = file["crt"],
                    ![m].stage = IF Absent \in {file["key"], file["crt"]} THEN "made" ELSE "open"]
    /\ UNCHANGED <<dirVars, made, Settings>>

WritePem(m) ==
    /\ \/ Step(m, "open", "write") /\ pem' = [key |-> Empty, cert |-> Empty]
       \/ Step(m, "write", "made") /\ pem' = [key |-> maker[m].key, cert |-> maker[m].cert]
    /\ UNCHANGED <<file, bundle, age, made, Settings>>

\* An OSError in either block ends the block: the copy stays as it is, the old
\* one or an empty one, and what comes after the block is done.
CopyFails(m) ==
    /\ ~disk
    /\ \/ Step(m, "copy", "read") \/ Step(m, "copying", "read")
       \/ Step(m, "open", "made") \/ Step(m, "write", "made")
    /\ UNCHANGED <<dirVars, made, Settings>>
-----------------------------------------------------------------------------
(* get_or_create_merged_ca_bundle, from build_proxy_env. *)

\* The file returned, by the certificate of ours that is in it.
Trusts(m, from, cert) ==
    /\ maker[m].stage = from
    /\ maker' = [maker EXCEPT ![m].stage = "trusts", ![m].cert = cert]

\* Mutant: a bundle that is there is taken for fresh.
MutantCheckBundle(m) ==
    /\ CASE file["mcert"] = Absent -> Trusts(m, "bundle", Absent)
         [] file["mcert"] # Absent /\ bundle # Absent -> Trusts(m, "bundle", bundle)
         [] OTHER -> Step(m, "bundle", "compose")
    /\ UNCHANGED <<dirVars, made, Settings>>

\* _merged_bundle_is_fresh: by times alone, and ties are fresh.  The system's own
\* roots may have been updated since, or be another file in this environment.
CheckBundle(m) ==
    /\ \/ file["mcert"] = Absent /\ Trusts(m, "bundle", Absent)
       \/ file["mcert"] # Absent /\ bundle # Absent /\ age # "older" /\ Trusts(m, "bundle", bundle)
       \/ file["mcert"] # Absent /\ Step(m, "bundle", "compose")
    /\ UNCHANGED <<dirVars, made, Settings>>

\* Mutant: an empty certificate is merged.
MutantCompose(m) ==
    /\ maker[m].stage = "compose"
    /\ maker' = [maker EXCEPT ![m].stage = "tmp", ![m].cert = file["mcert"]]
    /\ UNCHANGED <<dirVars, made, Settings>>

\* _read_cert_text: an empty or unreadable certificate is returned by its path.
Compose(m) ==
    /\ maker[m].stage = "compose"
    /\ IF file["mcert"] \in Pairs
       THEN maker' = [maker EXCEPT ![m].stage = "tmp", ![m].cert = file["mcert"]]
       ELSE Trusts(m, "compose", file["mcert"])
    /\ UNCHANGED <<dirVars, made, Settings>>

\* The temporary file is written now, and has this moment's time: an earlier one
\* than the certificate's, if the clock was stepped back in between.
WriteTmp(m) ==
    /\ maker[m].stage = "tmp"
    /\ \/ \E written \in {"newer", "older"} :
             maker' = [maker EXCEPT ![m].stage = "replace", ![m].age = written]
       \/ Trusts(m, "tmp", file["mcert"])      \* OSError
    /\ UNCHANGED <<dirVars, made, Settings>>

ReplaceBundle(m) ==
    /\ Trusts(m, "replace", maker[m].cert)
    /\ bundle' = maker[m].cert
    /\ age' = maker[m].age
    /\ UNCHANGED <<file, pem, made, Settings>>
-----------------------------------------------------------------------------
(* Around the processes. *)

\* The command is done with the CA, or its process dies.
Leaves(m) ==
    /\ m \in AtWork
    /\ maker' = [maker EXCEPT ![m] = Idle]
    /\ UNCHANGED <<dirVars, made, Settings>>

\* A year goes by.
Ages ==
    /\ AtWork = {}
    /\ \E p \in 1..made : p \notin expiring /\ expiring' = expiring \cup {p}
    /\ UNCHANGED <<alone, disk, dirVars, made, runs, maker>>

Make(m) ==
    \/ Look(m) \/ Judge(m) \/ Remove(m) \/ TruncateKey(m) \/ WriteKey(m) \/ WriteCert(m)
    \/ OpensslFails(m) \/ Verify(m) \/ StartCopy(m) \/ FinishCopy(m) \/ ReadPair(m) \/ WritePem(m)
    \/ CopyFails(m)
    \/ CheckBundle(m) \/ Compose(m) \/ WriteTmp(m) \/ ReplaceBundle(m)

CaNext ==
    \/ Ages
    \/ \E m \in Makers :
          \/ \E command \in {"init-ca", "run-agent", "start", "env"} : Launch(m, command)
          \/ Make(m) \/ Leaves(m)

CaSpec == CaInit /\ [][CaNext]_caVars
-----------------------------------------------------------------------------
(* Properties. *)

(* Types.  Files hold nothing, a cut-off text or a pair that was made, and   *)
(* the merged bundle never a cut-off one: an agent that is given it trusts a *)
(* whole certificate, whoever died while writing what (ca.py:80-133).        *)
CaInv ==
    /\ alone \in BOOLEAN /\ disk \in BOOLEAN /\ age \in AgeValues
    /\ made \in 0..MaxPairs /\ runs \in 0..MaxRuns
    /\ expiring \subseteq 1..made
    /\ file \in [Files -> {Absent, Empty} \cup 1..made]
    /\ pem \in [key : {Absent, Empty} \cup 1..made, cert : {Absent, Empty} \cup 1..made]
    /\ bundle \in {Absent} \cup 1..made
    /\ maker \in [Makers -> MakerRecord]
    /\ \A m \in Makers :
          /\ maker[m].pair \in 0..made
          /\ maker[m].stage = "certout" => maker[m].pair # 0
          /\ maker[m].stage \in {"tmp", "replace"} => maker[m].cert \in 1..made
          /\ {maker[m].key, maker[m].cert} \subseteq {Absent, Empty} \cup 1..made

(* One process at a time, dying wherever it likes: a certificate that would  *)
(* be reused, being whole and not about to expire, has the key of its own    *)
(* pair beside it (ca_generator.py:139-148, 228-241).                        *)
ReusedPairMatches ==
    alone /\ AtWork = {} /\ file["crt"] \in Pairs \ expiring => file["key"] = file["crt"]

(* One process at a time, dying wherever it likes, no write of a copy        *)
(* failing: a generator that returns has left the certificate, the key and   *)
(* both of mitmproxy's copies of one pair, which does not expire for 30 days *)
(* (ca_generator.py:253-264).                                                *)
MakerLeavesWholeCa ==
    \A m \in Makers :
        alone /\ disk /\ maker[m].stage = "made" =>
            /\ file["crt"] \in Pairs \ expiring
            /\ \A f \in Files : file[f] = file["crt"]
            /\ pem = [key |-> file["crt"], cert |-> file["crt"]]

(* One process at a time, dying wherever it likes: no run leaves a pair that *)
(* the next one would reuse although its halves do not match, and a run that *)
(* returns has left one pair in all four files (ca_generator.py:228-264).    *)
LoneMakerLeavesWholeCa == ReusedPairMatches /\ MakerLeavesWholeCa

(* "This ensures direct connections via NO_PROXY succeed without TLS         *)
(* failures while still trusting the Holon proxy for intercepted endpoints"  *)
(* (ca.py:105-108).  Even with one process at a time the bundle need not     *)
(* hold the certificate the proxy has now: one written in the bundle's own   *)
(* tick, or after the clock was stepped back, leaves the old bundle fresh    *)
(* (ca.py:73).                                                               *)
BundleTrustsProxy ==
    \A m \in Makers :
        alone /\ maker[m].stage = "trusts" /\ file["mcert"] \in Pairs
            => maker[m].cert = file["mcert"]

(* One process at a time: the trust bundle an agent is given holds the       *)
(* certificate the proxy has now, whether it was merged for this agent or    *)
(* found fresh, and whatever died before it was written (ca.py:66-77,        *)
(* 116-133), unless the times of the two files tell that certificate for     *)
(* the older one.  A bundle that seems older than it is, is only merged      *)
(* again.                                                                    *)
BundleIsCurrent == age # "tied" => BundleTrustsProxy
=============================================================================
