------------------------------ MODULE SpecLoad ------------------------------
(***************************************************************************)
(* spec.load and ProjectSpec.model_for: the JSON that dhall-to-json renders *)
(* from hostbootstrap.dhall is narrowed, entry by entry, into the model of *)
(* each substrate, and the detected substrate is looked up.                *)
(*                                                                         *)
(* The Dhall package (dhall/package.dhall) makes a typed value and lowers  *)
(* it to JSON, but nothing makes a project import it: load meets any JSON. *)
(*                                                                         *)
(* A JSON value is <<type, value>>.  A reader maps one to the set of what  *)
(* it can be read as: one value, or none where the code raises SpecError.  *)
(***************************************************************************)
EXTENDS Naturals, Sequences, FiniteSets

CONSTANTS
    JSON,    \* the values that documents are made of
    Inputs,  \* [config |-> a typed value or None, json |-> what it renders to]
    Text,    \* what a project writes where the package has a Text
    None     \* an Optional that is not there, no typed value

SubstrateName == {"apple-silicon", "linux-cpu", "linux-gpu"}

-----------------------------------------------------------------------------
(* The package: its types.                                                 *)

MountType == [host : Text, container : Text, read_only : BOOLEAN]

HostReqsType == [ghc : BOOLEAN, tart : BOOLEAN, metal : BOOLEAN]

BuildType == [cabal : Text, host : HostReqsType]

HandoffType == [up : Text, down : Text, delete : Text \cup {None}]

ArtifactType == [dockerfile : Text, flavor : {"cpu", "cuda"}]

ContainerType ==
    [kind : {"container"}, dockerfile : Text, flavor : {"cpu", "cuda"}, service : BOOLEAN,
     mounts : Seq(MountType)]

HostBinaryType ==
    [kind : {"host-binary"}, build : BuildType, handoff : HandoffType,
     container : ArtifactType \cup {None}]

HostDaemonType ==
    [kind : {"host-daemon"}, build : BuildType, daemon : Text,
     container : ArtifactType \cup {None}]

ModelType == ContainerType \cup HostBinaryType \cup HostDaemonType

EntryType == [substrate : SubstrateName, model : ModelType]

ConfigType == Seq(EntryType)

-----------------------------------------------------------------------------
(* JSON.                                                                   *)

Null == <<"null", "null">>
Str(s) == <<"str", s>>
Bool(b) == <<"bool", b>>
List(s) == <<"list", s>>
Map(f) == <<"map", f>>

\* In place of JSON: there is no file, or it does not evaluate.
Unrendered == <<"none", "none">>

\* A key of a mapping is given a value.
Put(f, key, value) == [k \in DOMAIN f \cup {key} |-> IF k = key THEN value ELSE f[k]]

\* dict.get
GetOr(v, key, default) == IF key \in DOMAIN v[2] THEN v[2][key] ELSE default
Get(v, key) == GetOr(v, key, Null)

-----------------------------------------------------------------------------
(* The package: a typed value rendered.  Records of Optional fields: an    *)
(* Optional that is None leaves its field out.                             *)

RenderFlavor == [cpu |-> Str("Cpu"), cuda |-> Str("Cuda")]

RenderMount(m) ==
    Map([host |-> Str(m.host), container |-> Str(m.container), ro |-> Bool(m.read_only)])

RenderBuild(b) ==
    Map([cabal |-> Str(b.cabal),
         host |-> Map([k \in {"ghc", "tart", "metal"} |-> Bool(b.host[k])])])

Optional(f, key, value, present) == IF present THEN Put(f, key, value) ELSE f

RenderHandoff(h) ==
    Map(Optional([up |-> Str(h.up), down |-> Str(h.down)],
                 "delete", Str(h.delete), h.delete # None))

RenderArtifact(a) ==
    Map([dockerfile |-> Str(a.dockerfile), flavor |-> RenderFlavor[a.flavor]])

RenderModel(m) ==
    CASE m.kind = "container" ->
            Map([tag |-> Str("Container"), container |-> Map(
                [dockerfile |-> Str(m.dockerfile), flavor |-> RenderFlavor[m.flavor],
                 service |-> Bool(m.service),
                 mounts |-> List([i \in DOMAIN m.mounts |-> RenderMount(m.mounts[i])])])])
      [] m.kind = "host-binary" ->
            Map([tag |-> Str("HostBinary"), hostBinary |-> Map(Optional(
                [build |-> RenderBuild(m.build), handoff |-> RenderHandoff(m.handoff)],
                "container", RenderArtifact(m.container), m.container # None))])
      [] OTHER ->
            Map([tag |-> Str("HostDaemon"), hostDaemon |-> Map(Optional(
                [build |-> RenderBuild(m.build), daemon |-> Str(m.daemon)],
                "container", RenderArtifact(m.container), m.container # None))])

Render(config) ==
    Map([project |-> Str("project"),
         substrates |-> List([i \in DOMAIN config |->
            Map([substrate |-> Str(config[i].substrate),
                 model |-> RenderModel(config[i].model)])])])

\* The package's types are what a typed value has.
ASSUME PackageAssumption ==
    \A in \in Inputs : in.config # None =>
        in.config \in ConfigType /\ in.json \in {Unrendered, Render(in.config)}

-----------------------------------------------------------------------------
(* The readers.                                                            *)

ReadOptional(v, read) == IF v = Null THEN {None} ELSE read

AsMap(v) == IF v[1] = "map" THEN {v} ELSE {}
AsList(v) == IF v[1] = "list" THEN {v[2]} ELSE {}
AsStr(v) == IF v[1] = "str" THEN {v[2]} ELSE {}

\* Mutant: what is no boolean is taken for the default.
AsBoolLenient(v) == {v = <<"bool", TRUE>>}

AsBool(v) == IF v[1] = "bool" THEN {v[2]} ELSE {}

\* The strings that lower() makes "cpu" and "cuda".
Spellings ==
    [cpu |-> {"cpu", "cpU", "cPu", "cPU", "Cpu", "CpU", "CPu", "CPU"},
     cuda |-> {"cuda", "cudA", "cuDa", "cuDA", "cUda", "cUdA", "cUDa", "cUDA",
               "Cuda", "CudA", "CuDa", "CuDA", "CUda", "CUdA", "CUDa", "CUDA"}]

\* Flavor(text.lower()).
Flavor(v) == {f \in {"cpu", "cuda"} : \E s \in Spellings[f] : v = Str(s)}

Mount(v) == UNION {
    [host : AsStr(Get(m, "host")), container : AsStr(Get(m, "container")),
     read_only : AsBool(GetOr(m, "ro", Bool(FALSE)))] : m \in AsMap(v)}

\* All of the entries, or nothing.
MountSeq(s) ==
    IF \A i \in DOMAIN s : Mount(s[i]) # {}
    THEN {[i \in DOMAIN s |-> CHOOSE m \in Mount(s[i]) : TRUE]}
    ELSE {}

Mounts(v) == UNION {MountSeq(s) : s \in AsList(v)}

HostReqs(v) == UNION {
    [ghc : AsBool(GetOr(m, "ghc", Bool(FALSE))),
     tart : AsBool(GetOr(m, "tart", Bool(FALSE))),
     metal : AsBool(GetOr(m, "metal", Bool(FALSE)))] : m \in AsMap(v)}

BuildSpec(v) == UNION {
    [cabal : AsStr(Get(m, "cabal")), host : HostReqs(GetOr(m, "host", Map(<<>>)))]
    : m \in AsMap(v)}

\* Mutant: handoff.delete is required.
HandoffStrict(v) == UNION {
    [up : AsStr(Get(m, "up")), down : AsStr(Get(m, "down")),
     delete : AsStr(Get(m, "delete"))] : m \in AsMap(v)}

Handoff(v) == UNION {
    [up : AsStr(Get(m, "up")), down : AsStr(Get(m, "down")),
     delete : ReadOptional(Get(m, "delete"), AsStr(Get(m, "delete")))] : m \in AsMap(v)}

Artifact(v) == UNION {
    [dockerfile : AsStr(Get(m, "dockerfile")),
     flavor : Flavor(GetOr(m, "flavor", Str("cpu")))] : m \in AsMap(v)}

ContainerModel(v) == UNION {
    [kind : {"container"}, dockerfile : AsStr(Get(m, "dockerfile")),
     flavor : Flavor(GetOr(m, "flavor", Str("cpu"))),
     service : AsBool(GetOr(m, "service", Bool(FALSE))),
     mounts : Mounts(GetOr(m, "mounts", List(<<>>)))] : m \in AsMap(v)}

HostBinaryModel(v) == UNION {
    [kind : {"host-binary"}, build : BuildSpec(Get(m, "build")),
     handoff : Handoff(Get(m, "handoff")),
     container : ReadOptional(Get(m, "container"), Artifact(Get(m, "container")))] : m \in AsMap(v)}

HostDaemonModel(v) == UNION {
    [kind : {"host-daemon"}, build : BuildSpec(Get(m, "build")),
     daemon : AsStr(Get(m, "daemon")),
     container : ReadOptional(Get(m, "container"), Artifact(Get(m, "container")))] : m \in AsMap(v)}

\* spec._model: the tag says which payload is read; the others are not looked at.
Model(v) == UNION {
    CASE Get(m, "tag") = Str("Container") -> ContainerModel(Get(m, "container"))
      [] Get(m, "tag") = Str("HostBinary") -> HostBinaryModel(Get(m, "hostBinary"))
      [] Get(m, "tag") = Str("HostDaemon") -> HostDaemonModel(Get(m, "hostDaemon"))
      [] OTHER -> {} : m \in AsMap(v)}

\* What a map or a list is made of.
Held(v) == IF v[1] \in {"map", "list"} THEN {v[2][k] : k \in DOMAIN v[2]} ELSE {}

\* JSON has the documents and all that they are made of, and there is nothing
\* in it that is read as None.
ASSUME JSONAssumption ==
    /\ {in.json : in \in Inputs} \subseteq JSON \cup {Unrendered}
    /\ UNION {Held(v) : v \in JSON} \subseteq JSON
    /\ \A v \in JSON :
          /\ v[1] = "str" => v = Str(v[2])
          /\ v[1] = "bool" => v = Bool(v[2])
          /\ v[1] = "list" => v[2] \in Seq(Held(v))
          /\ None \notin AsStr(v) \cup Artifact(v)

-----------------------------------------------------------------------------
(* load and model_for.                                                     *)

VARIABLES
    input,       \* the file: what it was made from and what it renders to
    detected,    \* the host's substrate
    index,       \* entries read
    substrates,  \* what they say: a function from substrates to models
    outcome,     \* of the command so far
    model        \* what the command is dispatched on

vars == <<input, detected, index, substrates, outcome, model>>

TypeOK ==
    /\ detected \in SubstrateName
    /\ DOMAIN substrates \subseteq SubstrateName
    /\ outcome \in {"loading", "reading", "loaded", "dispatched", "SpecError"}
    /\ Cardinality(DOMAIN substrates) = index

Init ==
    /\ input \in Inputs /\ detected \in SubstrateName
    /\ index = 0
    /\ substrates = <<>>
    /\ outcome = "loading"
    /\ model = None

\* <<>> unless the document has a project, and entries at all.
Entries == UNION {
    IF AsStr(Get(root, "project")) = {} THEN {} ELSE AsList(Get(root, "substrates"))
    : root \in AsMap(input.json)}

NotRendered ==
    /\ outcome = "loading" /\ input.json = Unrendered
    /\ outcome' = "SpecError"
    /\ UNCHANGED <<input, detected, index, substrates, model>>

ReadRoot ==
    /\ outcome = "loading" /\ input.json # Unrendered
    /\ outcome' = IF Entries \in {{}, {<<>>}} THEN "SpecError" ELSE "reading"
    /\ UNCHANGED <<input, detected, index, substrates, model>>

\* What entry number i can be read as.
Entry(i) == UNION {UNION {
    [substrate : AsStr(Get(e, "substrate")) \cap SubstrateName, model : Model(Get(e, "model"))]
    : e \in AsMap(entries[i])} : entries \in Entries}

More == outcome = "reading" /\ \E entries \in Entries : index < Len(entries)

\* Mutant: the last of two entries for a substrate counts.
AnyEntry(e) == TRUE

Undeclared(e) == e.substrate \notin DOMAIN substrates

ReadEntry ==
    /\ More
    /\ \E e \in Entry(index + 1) :
          /\ Undeclared(e)
          /\ substrates' = Put(substrates, e.substrate, e.model)
    /\ index' = index + 1
    /\ UNCHANGED <<input, detected, outcome, model>>

RejectEntry ==
    /\ More
    /\ \A e \in Entry(index + 1) : ~Undeclared(e)
    /\ outcome' = "SpecError"
    /\ UNCHANGED <<input, detected, index, substrates, model>>

Loaded ==
    /\ outcome = "reading" /\ ~More
    /\ outcome' = "loaded"
    /\ UNCHANGED <<input, detected, index, substrates, model>>

ModelFor ==
    /\ outcome = "loaded"
    /\ IF detected \in DOMAIN substrates
       THEN outcome' = "dispatched" /\ model' = substrates[detected]
       ELSE outcome' = "SpecError" /\ UNCHANGED model
    /\ UNCHANGED <<input, detected, index, substrates>>

Next == NotRendered \/ ReadRoot \/ ReadEntry \/ RejectEntry \/ Loaded \/ ModelFor

Spec == Init /\ [][Next]_vars

-----------------------------------------------------------------------------
(* Properties.                                                             *)

\* What a project declares with the package is what its commands are
\* dispatched on, and the only configs they refuse are those that the two
\* residual checks are about or that have no entry at all.
DispatchedAsDeclared ==
    (input.config # None /\ input.json # Unrendered) =>
        LET config == input.config
        IN /\ outcome = "dispatched" =>
                 {e \in {config[i] : i \in DOMAIN config} : e.substrate = detected}
                     = {[substrate |-> detected, model |-> model]}
           /\ outcome = "SpecError" =>
                 \/ \A i \in DOMAIN config : config[i].substrate # detected
                 \/ \E i, j \in DOMAIN config :
                       i < j /\ config[i].substrate = config[j].substrate

\* A document says what was read when every field that it gives was taken as
\* it stands, a flavor in any spelling, and every Optional that was read as
\* None is not given.  A model
\* is an object of objects, four deep.
SaysValue(said, read) ==
    \/ said = read
    \/ \E f \in {"cpu", "cuda"} :
          read = RenderFlavor[f] /\ \E s \in Spellings[f] : said = Str(s)

\* The Optionals of the record that has the fields of f.
Optionals(f) ==
    {k \in {"delete"} : "up" \in DOMAIN f} \cup {k \in {"container"} : "build" \in DOMAIN f}

SaysWith(Below(_, _), said, read) ==
    CASE read[1] = "map" ->
            /\ said[1] = "map"
            /\ \A k \in DOMAIN read[2] \cap DOMAIN said[2] : Below(said[2][k], read[2][k])
            /\ \A k \in Optionals(read[2]) \ DOMAIN read[2] : Get(said, k) = Null
      [] read[1] = "list" ->
            /\ said[1] = "list" /\ DOMAIN said[2] = DOMAIN read[2]
            /\ \A i \in DOMAIN read[2] : Below(said[2][i], read[2][i])
      [] OTHER -> SaysValue(said, read)

SaysFields(said, read) == SaysWith(SaysValue, said, read)
SaysPart(said, read) == SaysWith(SaysFields, said, read)
SaysPayload(said, read) == SaysWith(SaysPart, said, read)
Says(said, read) == SaysWith(SaysPayload, said, read)

\* Whatever a document is, hand-written ones of no type included, load never
\* reads into it what it does not say: no field of the wrong type is dropped
\* or replaced by its default (the narrowers, lines 128-242).
NothingMisread ==
    \A entries \in Entries : \A i \in 1..index :
        Says(Get(entries[i], "model"),
             RenderModel(substrates[Get(entries[i], "substrate")[2]]))
=============================================================================
