------------------------------ MODULE StartupGate ------------------------------
(***************************************************************************)
(* main.py's lifespan and services/model_loader.py: what a process checks, *)
(* in which order, before it serves, and what it stops afterwards.  An     *)
(* artifact is hashed against the manifest and then read again to be       *)
(* unpickled; whoever deploys replaces files at any time, between the two  *)
(* readings as well.  ModelReadiness models the lazy loads of a serving    *)
(* process, of which one artifact at a time is followed here.              *)
(***************************************************************************)
EXTENDS Integers, FiniteSets

CONSTANTS
  Artifacts,    \* the artifacts the manifest lists, in the order of their names
  Deployments,  \* the environments a process may be started in
  MaxReplaced   \* bound on the replacements of files

VARIABLES
  env,       \* the deployment
  phase,     \* the next step of the lifespan
  disk,      \* "listed" if a file has its listed digest, "other", or "missing"
  rogue,     \* a model file the manifest does not list lies beside them
  hashed,    \* verify_all: artifacts found intact; load_verified: the one just hashed
  loaded,    \* what each artifact's loaded object was read from
  swapped,   \* artifacts replaced after they were hashed (not in the code)
  replaced,  \* replacements so far
  started    \* what the startup has started and the shutdown stops

gateVars == <<env, phase, disk, rogue, hashed, loaded, swapped, replaced, started>>

NoObject == "none"

Steps == <<"import", "keys", "store", "location", "signature", "verify", "serialization",
           "security", "models", "serving", "drain", "close", "shutdown", "stopped">>
Number(step) == CHOOSE i \in 1 .. 14 : Steps[i] = step

GateInit ==
  /\ env \in Deployments
  /\ phase = "import"
  /\ disk \in [Artifacts -> {"listed", "other", "missing"}]
  /\ rogue \in BOOLEAN
  /\ hashed = {}
  /\ loaded = [a \in Artifacts |-> NoObject]
  /\ swapped = {} /\ replaced = 0
  /\ started = {"inference pool"}

\* The step in hand succeeds and the next one begins, or it raises and the process ends.
Proceed == phase' = Steps[Number(phase) + 1]
Raises == phase' = "aborted"
Require(condition) == IF condition THEN Proceed ELSE Raises

OthersUnchanged == UNCHANGED <<env, disk, rogue, loaded, swapped, replaced, started>>

\* verify_artifact
Intact(a) == disk[a] = "listed"
\* verify_all(forbid_unlisted=True)
AllVerified == (\A a \in Artifacts : Intact(a)) /\ ~rogue

-------------------------------------------------------------------------------
(* Import and lifespan *)

\* _maybe_enforce_on_import
ImportGate ==
  /\ phase = "import"
  /\ Require(env.verifyOnImport => AllVerified)
  /\ UNCHANGED hashed /\ OthersUnchanged

\* A production process has API keys.
CheckKeys ==
  /\ phase = "keys"
  /\ Require(env.production => env.keys)
  /\ UNCHANGED hashed /\ OthersUnchanged

\* verify_store_config and get_store: a production process has an external store.
CheckStore ==
  /\ phase = "store"
  /\ Require(env.production => env.externalStore)
  /\ started' = IF env.production => env.externalStore THEN started \cup {"store"} ELSE started
  /\ UNCHANGED <<env, disk, rogue, hashed, loaded, swapped, replaced>>

\* enforce_manifest_location
CheckLocation ==
  /\ phase = "location"
  /\ Require(env.production => env.manifest = "read-only outside")
  /\ UNCHANGED hashed /\ OthersUnchanged

\* verify_manifest_signature; without the library a signature is ignored outside of
\* production.
CheckSignature ==
  /\ phase = "signature"
  /\ Require(env.signature \in IF env.production THEN {"none", "good"}
                                ELSE {"none", "good", "unverifiable"})
  /\ UNCHANGED hashed /\ OthersUnchanged

Hard == env.production \/ env.verifyOnImport

\* verify_all hashes one artifact after the other, and then looks for unlisted files.
VerifyOne(a) ==
  /\ phase = "verify" /\ Hard /\ a \notin hashed
  /\ IF Intact(a) THEN hashed' = hashed \cup {a} /\ UNCHANGED phase
     ELSE Raises /\ UNCHANGED hashed
  /\ OthersUnchanged

VerifyEnds ==
  /\ phase = "verify"
  /\ Hard => hashed = Artifacts
  /\ Require(Hard => ~rogue)
  /\ hashed' = {}
  /\ OthersUnchanged

\* check_serialization_env: only another minor version of scikit-learn is fatal, and only
\* in production.
CheckSerialization ==
  /\ phase = "serialization"
  /\ Require(env.production => env.sameSklearn)
  /\ UNCHANGED hashed /\ OthersUnchanged

\* initialize_security_architecture starts the collector and the flush loop.
InitializeSecurity ==
  /\ phase = "security"
  /\ Proceed
  /\ started' = started \cup {"collector", "flush loop"}
  /\ UNCHANGED <<env, disk, rogue, hashed, loaded, swapped, replaced>>

-------------------------------------------------------------------------------
(* Loading *)

Loading == (phase = "models" /\ env.eager) \/ phase = "serving"

\* Slip: the artifact is read without having been hashed.
HashUnchecked(a) ==
  /\ Loading /\ hashed = {} /\ loaded[a] = NoObject
  /\ hashed' = {a}
  /\ UNCHANGED phase /\ OthersUnchanged

\* load_verified hashes the file, and gives up if it is not the listed one ...
Hash(a) ==
  /\ Loading /\ hashed = {} /\ loaded[a] = NoObject
  /\ Intact(a)
  /\ hashed' = {a}
  /\ UNCHANGED phase /\ OthersUnchanged

\* ... and then joblib.load reads it again, if it is still there.
Unpickle(a) ==
  /\ Loading /\ hashed = {a}
  /\ loaded' = [loaded EXCEPT ![a] = IF disk[a] = "missing" THEN NoObject ELSE disk[a]]
  /\ hashed' = {}
  /\ UNCHANGED <<env, phase, disk, rogue, swapped, replaced, started>>

\* With eager loading the first failure ends it; what is missing answers 503 later.
ModelsEnd ==
  /\ phase = "models" /\ hashed = {}
  /\ env.eager => \/ \E a \in Artifacts : ~Intact(a)
                  \/ \A a \in Artifacts : loaded[a] # NoObject
  /\ Proceed
  /\ UNCHANGED hashed /\ OthersUnchanged

\* Somebody replaces or removes a file.
Replace(a, content) ==
  /\ replaced < MaxReplaced /\ disk[a] # content
  /\ replaced' = replaced + 1
  /\ disk' = [disk EXCEPT ![a] = content]
  /\ swapped' = IF Loading /\ a \in hashed THEN swapped \cup {a} ELSE swapped
  /\ UNCHANGED <<env, phase, rogue, hashed, loaded, started>>

-------------------------------------------------------------------------------
(* Shutdown *)

\* The server is asked to stop.
Terminate ==
  /\ phase = "serving" /\ hashed = {}
  /\ Proceed
  /\ UNCHANGED hashed /\ OthersUnchanged

\* The pool is drained, the store's client closed, the security architecture stopped.
ShutDown(step, parts) ==
  /\ phase = step
  /\ Proceed
  /\ started' = started \ parts
  /\ UNCHANGED <<env, disk, rogue, hashed, loaded, swapped, replaced>>

Ended == phase \in {"stopped", "aborted"} /\ UNCHANGED gateVars

GateNext ==
  \/ ImportGate \/ CheckKeys \/ CheckStore \/ CheckLocation \/ CheckSignature
  \/ (\E a \in Artifacts : VerifyOne(a)) \/ VerifyEnds
  \/ CheckSerialization \/ InitializeSecurity
  \/ \E a \in Artifacts : Hash(a) \/ Unpickle(a)
  \/ ModelsEnd
  \/ \E a \in Artifacts, content \in {"listed", "other", "missing"} : Replace(a, content)
  \/ Terminate
  \/ ShutDown("drain", {"inference pool"}) \/ ShutDown("close", {"store"})
  \/ ShutDown("shutdown", {"collector", "flush loop"})
  \/ Ended

GateSpec == GateInit /\ [][GateNext]_gateVars

-------------------------------------------------------------------------------
(* Properties *)

Sound(e) ==
  /\ e.keys /\ e.externalStore /\ e.manifest = "read-only outside"
  /\ e.signature \in {"none", "good"} /\ e.sameSklearn

\* Types of the process's state.
GateTypeOK ==
  /\ env \in Deployments
  /\ phase \in {Steps[i] : i \in 1 .. 14} \cup {"aborted"}
  /\ disk \in [Artifacts -> {"listed", "other", "missing"}] /\ rogue \in BOOLEAN
  /\ hashed \subseteq Artifacts
  /\ loaded \in [Artifacts -> {NoObject, "listed", "other"}]
  /\ swapped \subseteq Artifacts /\ replaced \in 0 .. MaxReplaced
  /\ started \subseteq {"inference pool", "store", "collector", "flush loop"}

\* Nothing that is not the listed artifact is ever unpickled, except when the file was
\* replaced in the moment between its two readings; no production process serves unless
\* each check of the lifespan passed; and a process that stopped left nothing running.
ServesVerified ==
  /\ \A a \in Artifacts : loaded[a] = "other" => a \in swapped
  /\ env.production /\ phase # "aborted" /\ Number(phase) >= Number("security") => Sound(env)
  /\ phase = "stopped" => started = {}
===============================================================================
