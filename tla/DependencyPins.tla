--------------------------- MODULE DependencyPins ---------------------------
(***************************************************************************)
(* Edits of package.json, package-lock.json, the vendored schema and the    *)
(* installed tree, and the two guards over them: check-sdk-exact-pin.mjs    *)
(* and check-typescript-peer-range.mjs.  A version specification is one of  *)
(* a few strings; a TypeScript version is a triple.                         *)
(***************************************************************************)
EXTENDS Integers, Sequences, FiniteSets

CONSTANTS
  ExactSpecs,              \* the specifications that are a bare X.Y.Z
  LooseSpecs,              \* ranges and tags
  REQUIRED_MCP_SDK_VERSION,
  UnknownPackage,          \* bound: one package the guard does not know
  PEER_RANGE_PACKAGES_TO_CHECK,
  NewPeer,                 \* bound: a package that an upgrade may bring
  Triples,                 \* bound: the TypeScript versions there are
  MaxPinEdits              \* bound

VARIABLES
  pinStage,                \* "editing", "accepted", "rejected"
  pinEdits,
  manifest, lockRoot,      \* package.json, and its mirror in the lockfile
  lockEntries,             \* by package: what npm ci installs
  requestOfServer,         \* what server's own manifest asks of core
  schema, digest,          \* the vendored schema's content, and the recorded one
  peers,                   \* node_modules/: typescript-eslint's packages
  typescript               \* the version of the installed typescript

sdkVars  == <<manifest, lockRoot, lockEntries, requestOfServer, schema, digest>>
peerVars == <<peers, typescript>>
pinVars  == <<pinStage, pinEdits, sdkVars, peerVars>>

Server == "server"
Core   == "core"
Client == "client"
Packages == {Server, Core, Client, UnknownPackage}

None0 == "absent"
Specs == ExactSpecs \cup LooseSpecs \cup {None0}

(* The version that is required is exact, and the names are of different    *)
(* packages.                                                                *)
ASSUME PinsAssumption ==
  /\ REQUIRED_MCP_SDK_VERSION \in ExactSpecs /\ None0 \notin ExactSpecs \cup LooseSpecs
  /\ UnknownPackage \notin {Server, Core, Client}
  /\ PEER_RANGE_PACKAGES_TO_CHECK # {} /\ NewPeer \notin PEER_RANGE_PACKAGES_TO_CHECK
  /\ Triples \subseteq Nat \X Nat \X Nat

-----------------------------------------------------------------------------
(* check-sdk-exact-pin.mjs                                                  *)

PINNED_PACKAGES     == {Server, Core}
PINNED_DEV_PACKAGES == {Client}

isExactSemver(spec) == spec \in ExactSpecs

resolveLockedVersion(p) == lockEntries[p].version

resolveParentRequestedSpec == requestOfServer

productionModelContextProtocolPackages ==
  {p \in Packages : lockEntries[p].version # None0 /\ ~lockEntries[p].dev}

developmentModelContextProtocolPackages ==
  {p \in Packages : lockEntries[p].version # None0 /\ lockEntries[p].dev}

(* The request and the lockfile agree, at the one version.                  *)
PinnedExactly(p) ==
  LET requestedSpec == IF p = Server THEN manifest.dependencies[p] ELSE resolveParentRequestedSpec
  IN  /\ isExactSemver(requestedSpec)
      /\ resolveLockedVersion(p) = requestedSpec
      /\ requestedSpec = REQUIRED_MCP_SDK_VERSION

checkExpectedDevPackage(p) ==
  LET sites == {manifest.devDependencies[p], lockRoot.devDependencies[p], lockEntries[p].version}
  IN  /\ manifest.dependencies[p] = None0 /\ lockRoot.dependencies[p] = None0
      /\ \A spec \in sites : isExactSemver(spec) /\ spec = REQUIRED_MCP_SDK_VERSION
      /\ lockEntries[p].dev /\ Cardinality(sites) = 1

checkTasksExtensionSchemaPin ==
  schema # None0 /\ digest \notin {None0, "unusable"} /\ schema = digest

checkSdkExactPin ==
  /\ \A p \in PINNED_PACKAGES : PinnedExactly(p)
  /\ productionModelContextProtocolPackages \subseteq PINNED_PACKAGES
  /\ \A p \in PINNED_DEV_PACKAGES : checkExpectedDevPackage(p)
  /\ developmentModelContextProtocolPackages \subseteq PINNED_DEV_PACKAGES
  /\ checkTasksExtensionSchemaPin

-----------------------------------------------------------------------------
(* check-typescript-peer-range.mjs                                          *)

compareSemver(a, b) ==
  IF a[1] # b[1] THEN a[1] - b[1] ELSE IF a[2] # b[2] THEN a[2] - b[2] ELSE a[3] - b[3]

(* The one shape of a range that is understood.                             *)
Understood(range) == range.shape = ">= <"

versionSatisfiesRange(version, range) ==
  /\ Understood(range)
  /\ compareSemver(version, range.min) >= 0 /\ compareSemver(version, range.max) < 0

(* Fault: what cannot be read is taken for not installed.                   *)
ReadOrAbsent(p) ==
  CASE peers[p].entry \in {"none", "file"} \/ peers[p].manifest \in {"missing", "unreadable"} -> "no"
    [] OTHER -> IF peers[p].peer THEN "yes" ELSE "no"

(* One entry of the scope directory: a package that declares the peer, one  *)
(* that does not, or one of which neither can be said.  A plain file is no  *)
(* package; the meta-package, whose directory is not listed, may lack a     *)
(* manifest because it is not installed.                                    *)
readAndParsePackageJson(p) ==
  IF peers[p].entry \in {"none", "file"} THEN "no"
  ELSE CASE peers[p].manifest = "unreadable" -> "indeterminate"
         [] peers[p].manifest = "missing"    -> IF p = "typescript-eslint" THEN "no" ELSE "indeterminate"
         [] OTHER -> IF peers[p].peer THEN "yes" ELSE "no"

discoverInstalledTypescriptPeerPackages == {p \in DOMAIN peers : readAndParsePackageJson(p) = "yes"}

verifyPeerPackageInventoryComplete ==
  /\ discoverInstalledTypescriptPeerPackages = PEER_RANGE_PACKAGES_TO_CHECK
  /\ \A p \in DOMAIN peers : readAndParsePackageJson(p) # "indeterminate"

checkTypescriptPeerRange ==
  LET declared == {peers[p].range : p \in {q \in PEER_RANGE_PACKAGES_TO_CHECK : readAndParsePackageJson(q) = "yes"}}
  IN  /\ verifyPeerPackageInventoryComplete
      /\ Cardinality(declared) = 1
      /\ \A range \in declared : versionSatisfiesRange(typescript, range)

-----------------------------------------------------------------------------
(* The repository as it stands, and its edits.                              *)

Below(max) == [shape |-> ">= <", min |-> <<0, 1, 0>>, max |-> max]

PinInit ==
  /\ pinStage = "editing" /\ pinEdits = 0
  /\ manifest =
       [dependencies    |-> [p \in Packages |-> IF p = Server THEN REQUIRED_MCP_SDK_VERSION ELSE None0],
        devDependencies |-> [p \in Packages |-> IF p = Client THEN REQUIRED_MCP_SDK_VERSION ELSE None0]]
  /\ lockRoot = manifest
  /\ lockEntries =
       [p \in Packages |-> [version |-> IF p = UnknownPackage THEN None0 ELSE REQUIRED_MCP_SDK_VERSION,
                            dev |-> p = Client]]
  /\ requestOfServer = REQUIRED_MCP_SDK_VERSION
  /\ schema = "first" /\ digest = "first"
  /\ peers = [p \in PEER_RANGE_PACKAGES_TO_CHECK \cup {NewPeer} |->
                [entry |-> IF p = NewPeer THEN "none" ELSE "directory", manifest |-> "readable",
                 peer |-> TRUE, range |-> Below(<<1, 1, 0>>)]]
  /\ typescript = <<1, 0, 1>>

PinEdit == pinStage = "editing" /\ pinEdits < MaxPinEdits /\ pinEdits' = pinEdits + 1 /\ UNCHANGED pinStage

EditManifest ==
  /\ PinEdit
  /\ \E p \in Packages, list \in {"dependencies", "devDependencies"}, spec \in Specs :
       \/ manifest' = [manifest EXCEPT ![list][p] = spec] /\ UNCHANGED lockRoot
       \/ lockRoot' = [lockRoot EXCEPT ![list][p] = spec] /\ UNCHANGED manifest
  /\ UNCHANGED <<lockEntries, requestOfServer, schema, digest, peerVars>>

EditLockfile ==
  /\ PinEdit
  /\ \/ \E p \in Packages, spec \in Specs, dev \in BOOLEAN :
          lockEntries' = [lockEntries EXCEPT ![p] = [version |-> spec, dev |-> dev]] /\ UNCHANGED requestOfServer
     \/ requestOfServer' \in Specs /\ UNCHANGED lockEntries
  /\ UNCHANGED <<manifest, lockRoot, schema, digest, peerVars>>

(* An upgrade or a downgrade of the whole family, everywhere at once.       *)
MoveTogether ==
  /\ PinEdit
  /\ \E spec \in Specs \ {None0}, family \in SUBSET {Server, Core, Client} :
       /\ manifest' =
            [dependencies    |-> [p \in Packages |-> IF p = Server /\ p \in family THEN spec ELSE manifest.dependencies[p]],
             devDependencies |-> [p \in Packages |-> IF p = Client /\ p \in family THEN spec ELSE manifest.devDependencies[p]]]
       /\ lockRoot' = manifest'
       /\ lockEntries' = [p \in Packages |-> IF p \in family THEN [lockEntries[p] EXCEPT !.version = spec] ELSE lockEntries[p]]
       /\ requestOfServer' = IF Core \in family THEN spec ELSE requestOfServer
  /\ UNCHANGED <<schema, digest, peerVars>>

EditSchema ==
  /\ PinEdit
  /\ \/ schema' \in {None0, "second"} /\ UNCHANGED digest
     \/ digest' \in {None0, "unusable", "second"} /\ UNCHANGED schema
  /\ UNCHANGED <<manifest, lockRoot, lockEntries, requestOfServer, peerVars>>

(* An install that brings, breaks, links or removes a package, or moves     *)
(* the range of one of them or of all.                                      *)
EditPeers ==
  /\ PinEdit
  /\ \E p \in DOMAIN peers :
       \/ \E entry \in {"none", "file", "directory", "symlink"}, read \in {"readable", "missing", "unreadable"},
            peer \in BOOLEAN : peers' = [peers EXCEPT ![p].entry = entry, ![p].manifest = read, ![p].peer = peer]
       \/ \E max \in Triples :
            \/ peers' = [peers EXCEPT ![p].range = Below(max)]
            \/ peers' = [q \in DOMAIN peers |-> [peers[q] EXCEPT !.range = Below(max)]]
       \/ peers' = [q \in DOMAIN peers |-> [peers[q] EXCEPT !.range.shape = "other"]]
  /\ UNCHANGED <<sdkVars, typescript>>

EditTypescript == PinEdit /\ typescript' \in Triples /\ UNCHANGED <<sdkVars, peers>>

Guard ==
  /\ pinStage = "editing"
  /\ pinStage' = IF checkSdkExactPin /\ checkTypescriptPeerRange THEN "accepted" ELSE "rejected"
  /\ UNCHANGED <<pinEdits, sdkVars, peerVars>>

PinNext ==
  EditManifest \/ EditLockfile \/ MoveTogether \/ EditSchema \/ EditPeers \/ EditTypescript \/ Guard

PinSpec == PinInit /\ [][PinNext]_pinVars

-----------------------------------------------------------------------------

(* What npm ci installs of the SDK for production.                          *)
InstalledForProduction ==
  {<<p, lockEntries[p].version>> : p \in {q \in Packages : lockEntries[q].version # None0 /\ ~lockEntries[q].dev}}

(* Every package there is, known to the guard or not, that asks for a       *)
(* range of TypeScript.                                                     *)
AsksForTypescript ==
  {p \in DOMAIN peers : peers[p].entry \in {"directory", "symlink"} /\ peers[p].manifest # "missing" /\ peers[p].peer}

Before(a, b) ==
  \E i \in 1 .. 3 : a[i] < b[i] /\ \A j \in 1 .. i - 1 : a[j] = b[j]

(* What the two guards let pass installs exactly the SDK the repository was *)
(* tested with, and nothing else of it for production; the tests' client is *)
(* the same version; the schema is the recorded one; and every package that *)
(* asks for a TypeScript, on the list or not, readable or not, gets one it  *)
(* accepts.  What nobody edited passes.                                     *)
PinsHold ==
  /\ pinStage = "accepted" =>
       /\ InstalledForProduction = {<<p, REQUIRED_MCP_SDK_VERSION>> : p \in {Server, Core}}
       /\ lockEntries[Client] = [version |-> REQUIRED_MCP_SDK_VERSION, dev |-> TRUE]
       /\ schema = digest
       /\ \A p \in AsksForTypescript :
            ~Before(typescript, peers[p].range.min) /\ Before(typescript, peers[p].range.max)
  /\ pinStage = "rejected" => pinEdits > 0

=============================================================================
