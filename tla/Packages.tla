------------------------------ MODULE Packages ------------------------------
(***************************************************************************)
(* tools/package_component.py: packing one component, signing, publishing, *)
(* and the check an installer runs on a package.  One program packs at a   *)
(* time and may be stopped between any two of its writes.                  *)
(*                                                                         *)
(* The three files of a package are a record: the bytes, what the .sha256  *)
(* says and the text the .sig signs.  Bytes stand for their own hash; a    *)
(* signature is the text it signs, and only the trusted key makes one that *)
(* counts.  The component and the file name pattern are fixed: the version *)
(* is what a name can get wrong.                                           *)
(***************************************************************************)
EXTENDS Naturals, FiniteSets

CONSTANTS Versions,    \* version numbers, ordered
          Builds,      \* what a package can hold
          OffLayout,   \* the builds with a member outside the layout
          MaxPacks,    \* bound: how often something is packed or signed
          MaxStops     \* bound: stops of a program, here and on the device

Missing == "missing"   \* no such file
Torn == "torn"         \* what a write or a removal that stopped half-way left
NoSignature == <<0, Missing>>
Bytes == Builds \cup {Missing, Torn}

ASSUME PackagesAssumption ==
  /\ Versions \subseteq Nat \ {0} /\ OffLayout \subseteq Builds
  /\ {Missing, Torn} \cap Builds = {}
  /\ MaxPacks \in Nat /\ MaxStops \in Nat

VARIABLES
  out,      \* the folder of packages: version -> the three files
  assets,   \* the release of each version on the server: the same
  job,      \* the packing program: its place, its version, what is left
  packed,   \* which bytes were ever written whole under which version
            \* (history)
  packs, stops  \* counters

Files == {"bytes", "sha", "sig"}
Package ==
  [bytes : Bytes, sha : Bytes, sig : (Versions \X Bytes) \cup {NoSignature}]
Nothing == [bytes |-> Missing, sha |-> Missing, sig |-> NoSignature]
packing == <<out, assets, job, packed, packs, stops>>

PackingInit ==
  /\ out = [v \in Versions |-> Nothing]
  /\ assets = out
  /\ job \in [pc : {"idle"}, version : Versions, build : {Missing},
              then : {"pack"}, left : {{}}]
  /\ packed = {} /\ packs = 0 /\ stops = 0

Step(place) == job' = [job EXCEPT !.pc = place]
Write(file, value) == out' = [out EXCEPT ![job.version][file] = value]
Mine == out[job.version]

(* check_members: the archive can be read to its end and every member is   *)
(* below the layout.                                                       *)
MembersOk(bytes) == bytes \in Builds \ OffLayout

(* Mutant: the name is not part of the signed text.                        *)
SignatureOfBytes(v, f) == f.sig[2] = f.bytes

(* signature_ok binds the version and the hash.                            *)
SignatureOk(v, f) == f.sig = <<v, f.bytes>>

(* verify_package                                                          *)
Verified(v, f) ==
  /\ f.bytes # Missing
  /\ f.sha = f.bytes
  /\ SignatureOk(v, f)
  /\ MembersOk(f.bytes)

(* pack, pack --sign and publish begin with build; the package is written  *)
(* in place, so that it is torn until its last byte.                       *)
Build(v, b, then) ==
  /\ job.pc = "idle" /\ packs < MaxPacks
  /\ packs' = packs + 1
  /\ job' = [pc |-> "write", version |-> v, build |-> b, then |-> then,
             left |-> {}]
  /\ out' = [out EXCEPT ![v].bytes = Torn]
  /\ UNCHANGED <<assets, packed, stops>>

BuildWritten ==
  /\ job.pc = "write"
  /\ Write("bytes", job.build)
  /\ packed' = packed \cup {<<job.version, job.build>>}
  /\ Step("hash")
  /\ UNCHANGED <<assets, packs, stops>>

BuildHashed ==
  /\ job.pc = "hash"
  /\ Write("sha", Mine.bytes)
  /\ Step(IF job.then = "pack" THEN "idle" ELSE "sign")
  /\ UNCHANGED <<assets, packed, packs, stops>>

(* sign alone signs whatever is there under the name.                      *)
SignCommand(v) ==
  /\ job.pc = "idle" /\ packs < MaxPacks
  /\ out[v].bytes # Missing
  /\ packs' = packs + 1
  /\ job' = [job EXCEPT !.pc = "sign", !.version = v, !.then = "sign"]
  /\ UNCHANGED <<out, assets, packed, stops>>

(* A .sha256 that names other bytes stops the signing, a missing one does  *)
(* not.                                                                    *)
Sign ==
  /\ job.pc = "sign"
  /\ IF Mine.sha \in {Missing, Mine.bytes}
     THEN /\ Write("sig", <<job.version, Mine.bytes>>)
          /\ Step(IF job.then = "publish" THEN "check" ELSE "idle")
     ELSE Step("idle") /\ UNCHANGED out
  /\ UNCHANGED <<assets, packed, packs, stops>>

(* publish verifies like an installer before it uploads.                   *)
PublishChecks ==
  /\ job.pc = "check"
  /\ job' = IF Verified(job.version, Mine)
            THEN [job EXCEPT !.pc = "upload", !.left = Files]
            ELSE [job EXCEPT !.pc = "idle"]
  /\ UNCHANGED <<out, assets, packed, packs, stops>>

(* gh uploads the three files one by one, in no order worth relying on.    *)
Upload(file) ==
  /\ job.pc = "upload" /\ file \in job.left
  /\ assets' = [assets EXCEPT ![job.version][file] = Mine[file]]
  /\ job' = [job EXCEPT !.left = @ \ {file},
                        !.pc = IF job.left = {file} THEN "idle" ELSE @]
  /\ UNCHANGED <<out, packed, packs, stops>>

PackingStops ==
  /\ job.pc # "idle" /\ stops < MaxStops
  /\ stops' = stops + 1
  /\ Step("idle")
  /\ UNCHANGED <<out, assets, packed, packs>>

PackingNext ==
  \/ \E v \in Versions, b \in Builds, t \in {"pack", "sign", "publish"} :
       Build(v, b, t)
  \/ BuildWritten
  \/ BuildHashed
  \/ \E v \in Versions : SignCommand(v)
  \/ Sign
  \/ PublishChecks
  \/ \E file \in Files : Upload(file)
  \/ PackingStops

PackingTypeOK ==
  /\ out \in [Versions -> Package]
  /\ assets \in [Versions -> Package]
  /\ job \in [pc : {"idle", "write", "hash", "sign", "check", "upload"},
              version : Versions, build : Builds \cup {Missing},
              then : {"pack", "sign", "publish"}, left : SUBSET Files]
  /\ packed \subseteq Versions \X Builds
  /\ packs \in 0 .. MaxPacks /\ stops \in 0 .. MaxStops
=============================================================================
