------------------------------- MODULE Release --------------------------------
(***************************************************************************)
(* The release scripts: a pushed tag starts a job that stages every        *)
(* publishable package with its manifest rewritten, publishes them to the  *)
(* npm registry one by one, and then makes the release.  A job may fail at *)
(* any step and be run again; jobs of two tags may run at the same time.   *)
(***************************************************************************)
EXTENDS Naturals, Sequences, FiniteSets, SequencesExt

CONSTANTS
  Publishable,  \* the packages that are published, in their order
  Internal,     \* workspace packages that are bundled into others
  Catalog,      \* the names with an entry in the root manifest's catalog
  Manifests,    \* what the manifests may say: package -> set of dependencies
  Versions, MaxAttempts

\* Packages of the workspace ask for each other by their range in it, workspace.
Dependencies == [field : STRING, name : STRING, range : STRING]
ASSUME ReleaseAssumption ==
  /\ Publishable \in Seq(STRING) \ {<<>>} /\ Internal \cap ToSet(Publishable) = {}
  /\ "workspace" \notin Versions /\ "catalog" \notin Versions
  /\ Manifests \subseteq [ToSet(Publishable) -> SUBSET Dependencies]
  /\ \A m \in Manifests : \A p \in ToSet(Publishable) : \A d \in m[p] :
       d.name \in ToSet(Publishable) \cup Internal => d.range = "workspace"

VARIABLES
  tags,      \* the manifests at each pushed tag
  jobs,      \* version -> the job that runs or ran for its tag
  registry,  \* external: the packages of the npm registry
  released   \* the versions with a release

releaseVars == <<tags, jobs, registry, released>>

Packages == ToSet(Publishable)
Workspace == Packages \cup Internal
Dependency(field, name, range) == [field |-> field, name |-> name, range |-> range]

-----------------------------------------------------------------------------
(* The staged manifest.  A range is "workspace", "catalog" or a version.   *)

\* An unknown workspace dependency, or a catalog entry that is missing.
CannotStage(deps) ==
  \E d \in deps : \/ d.range = "workspace" /\ d.name \notin Workspace
                  \/ d.range = "catalog" /\ d.name \notin Catalog

\* Mutant: a bundled package stays among the dependencies.
KeepInternal(deps, v) == {IF d.range = "workspace" THEN [d EXCEPT !.range = v] ELSE d : d \in deps}
rewriteWorkspaceDeps(deps, v) ==
  {IF d.range = "workspace" THEN [d EXCEPT !.range = v] ELSE d :
     d \in {e \in deps : ~(e.range = "workspace" /\ e.name \in Internal)}}
rewriteCatalogDeps(deps) == {IF d.range = "catalog" THEN [d EXCEPT !.range = "some"] ELSE d : d \in deps}

Shipped(deps) == {d \in deps : d.field # "devDependencies"}
stageManifest(deps, v) == rewriteCatalogDeps(rewriteWorkspaceDeps(Shipped(deps), v))

\* What validate-manifest reports before a release: a dependency that would
\* be dropped, or that nobody knows.
Validated == {"dependencies", "peerDependencies"}
validateManifest(deps) == {d \in deps : d.field \in Validated /\ d.range = "workspace" /\ d.name \notin Packages}

-----------------------------------------------------------------------------

Job(attempt) == [phase |-> "prepare", staged |-> <<>>, at |-> 1, attempt |-> attempt]
Running(v) == v \in DOMAIN jobs /\ jobs[v].phase \in {"prepare", "publish", "release"}
Put(f, x, y) == [z \in DOMAIN f \cup {x} |-> IF z = x THEN y ELSE f[z]]

ReleaseInit == tags = <<>> /\ jobs = <<>> /\ registry = {} /\ released = {}

PushTag(v) ==
  /\ v \notin DOMAIN tags
  /\ \E m \in Manifests : tags' = Put(tags, v, m)
  /\ jobs' = Put(jobs, v, Job(1))
  /\ UNCHANGED <<registry, released>>

\* A failed job is run again, from its beginning.
Rerun(v) ==
  /\ v \in DOMAIN jobs /\ jobs[v].phase = "failed" /\ jobs[v].attempt < MaxAttempts
  /\ jobs' = [jobs EXCEPT ![v] = Job(@.attempt + 1)]
  /\ UNCHANGED <<tags, registry, released>>

Fail(v) == jobs' = [jobs EXCEPT ![v] = [@ EXCEPT !.phase = "failed", !.staged = <<>>]]

\* preparePackage, in the order of the list.
preparePackage(v) ==
  /\ Running(v) /\ jobs[v].phase = "prepare"
  /\ LET k == Len(jobs[v].staged) + 1
         deps == tags[v][Publishable[k]]
         Stage == jobs' = [jobs EXCEPT ![v].staged = Append(@, stageManifest(deps, v)),
                                       ![v].phase = IF k = Len(Publishable) THEN "publish" ELSE @]
     IN IF CannotStage(Shipped(deps)) THEN Fail(v) ELSE Stage
  /\ UNCHANGED <<tags, registry, released>>

\* A build step, a missing artifact, the network: the job stops.
Breaks(v) == Running(v) /\ Fail(v) /\ UNCHANGED <<tags, registry, released>>

Exists(name, v) == \E e \in registry : e.name = name /\ e.version = v
\* npm publish of one package, unless npm view lists its version; when the
\* view fails, the registry itself takes a version only once.
publishPackage(v) ==
  /\ Running(v) /\ jobs[v].phase = "publish"
  /\ LET j == jobs[v]
         name == Publishable[j.at]
         entry == [name |-> name, version |-> v, deps |-> j.staged[j.at]]
     IN IF Exists(name, v)
        THEN Fail(v) /\ UNCHANGED registry
        ELSE /\ registry' = registry \cup {entry}
             /\ \/ jobs' = [jobs EXCEPT ![v].at = @ + 1, ![v].phase = IF j.at = Len(Publishable) THEN "release" ELSE @]
                \/ Fail(v)  \* it arrived, the answer did not
  /\ UNCHANGED <<tags, released>>

\* gh release create.
CreateRelease(v) ==
  /\ Running(v) /\ jobs[v].phase = "release"
  /\ released' = released \cup {v}
  /\ jobs' = [jobs EXCEPT ![v] = [@ EXCEPT !.phase = "done", !.staged = <<>>]]
  /\ UNCHANGED <<tags, registry>>

ReleaseNext == \E v \in Versions : \/ PushTag(v) \/ Rerun(v) \/ preparePackage(v) \/ Breaks(v) \/ publishPackage(v) \/ CreateRelease(v)
ReleaseSpec == ReleaseInit /\ [][ReleaseNext]_releaseVars

-----------------------------------------------------------------------------

Resolves(d) == d.name \in Packages => Exists(d.name, d.range)

\* What is published is for people outside of this workspace: no manifest in
\* the registry asks for a bundled package, a workspace or a catalog; and
\* once a version has its release, however often its job failed and ran
\* again, all of its packages are there and so is what they ask for.  A
\* manifest that validates loses none of its dependencies on the way.
ReleaseInstalls ==
  /\ \A e \in registry : \A d \in e.deps :
       d.name \notin Internal /\ d.range \notin {"workspace", "catalog"} /\ d.field # "devDependencies"
  /\ \A v \in released :
       /\ \A name \in Packages : Exists(name, v)
       /\ \A e \in registry : e.version = v => \A d \in e.deps : Resolves(d)
  /\ \A e \in registry :
       LET deps == {d \in tags[e.version][e.name] : d.field \in Validated}
       IN validateManifest(deps) = {} => {d.name : d \in deps} = {d.name : d \in {x \in e.deps : x.field \in Validated}}

===============================================================================
