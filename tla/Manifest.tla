------------------------------ MODULE Manifest ------------------------------
(***************************************************************************)
(* Dataset manifests, the artifacts they describe, and the tools that      *)
(* change both: register_dataset_artifacts.py, download_dataset_           *)
(* artifacts.py and derive_alpine_rootfs_artifacts.py.  A tool runs alone  *)
(* and may stop between any two of its writes; nothing is written          *)
(* atomically but a derived archive, which replaces its file.              *)
(*                                                                         *)
(* The size and the SHA-256 of a file are the content they belong to.  A   *)
(* tool that refuses its input before it wrote anything changes nothing:   *)
(* it is an action that is not enabled.                                    *)
(***************************************************************************)
EXTENDS Naturals, SequencesExt

CONSTANTS
  PairOrder,     \* the pairs, in the order in which manifests list them
  Real,          \* those whose domain is one of _REAL_ARTIFACT_DOMAINS
  HasUrl,        \* those with an old_url and a new_url
  Path,          \* files under the base directories of the manifests
  RootfsPath,    \* where derive_alpine_rootfs_artifacts.py puts its output
  Original,      \* contents that are published somewhere
  Initial,       \* what the source manifest describes at first
  InitialDisks,  \* the files that may be there at first
  Absent, Torn, Undeclared,
  Registrations, \* what register_dataset_artifacts.py is called with
  MaxRuns        \* bound on the number of times a tool is started

Side == {"old", "new"}
ManifestId == {"source", "rootfs"}
Pair == {PairOrder[i] : i \in DOMAIN PairOrder}
Document == {"artifact_type", "source", "license_notes", "compression_status"}

(* An interrupted download leaves a part of the content; a derivation      *)
(* unpacks an archive and packs it again in a normal form.                 *)
Partial(c) == [part |-> c]
Rootfs(c) == [rootfs |-> c]
Whole == Original \cup {Rootfs(c) : c \in Original}
Data == Whole \cup {Partial(c) : c \in Original}
Normalized(c) == IF c \in Original THEN Rootfs(c) ELSE c

Entry == [file : [Side -> Path], declared : [Side -> Data \cup {Undeclared}],
          documents : SUBSET Document, enabled : BOOLEAN]

ASSUME ManifestAssumption ==
  /\ PairOrder \in Seq(Pair)
  /\ RootfsPath \in [Path -> Path]
  /\ DOMAIN Initial \subseteq Pair
  /\ \A p \in DOMAIN Initial : Initial[p] \in Entry
  /\ InitialDisks \subseteq [Path -> Data \cup {Absent}]
  /\ \A r \in Registrations : r.file \in [Side -> Path]
  /\ MaxRuns \in Nat
  /\ {Absent, Torn, Undeclared} \cap Data = {}

VARIABLES
  disk,      \* path -> content, or Absent
  manifest,  \* manifest -> description, Torn by an interrupted write, or Absent
  job,       \* the tool that runs and its local variables
  verified,  \* the pairs of the last tool, a download that ended well, or {}
  runs       \* how many tools were started

manifestVars == <<disk, manifest, job, verified, runs>>

Idle == [tool |-> "none", pairs |-> {}, left |-> <<>>, force |-> FALSE,
         pending |-> <<>>]

ManifestInit ==
  /\ disk \in InitialDisks
  /\ manifest = [source |-> Initial, rootfs |-> Absent]
  /\ job = Idle
  /\ verified = {}
  /\ runs = 0

(***************************************************************************)
(* Reading a manifest and its files.                                       *)
(***************************************************************************)

(* An enabled real pair carries sizes, hashes and provenance.              *)
Contract(p, e) ==
  e.enabled /\ p \in Real =>
    /\ \A s \in Side : e.declared[s] # Undeclared
    /\ e.documents = Document

SchemaValid(d) == \A p \in DOMAIN d : Contract(p, d[p])

ASSUME ShippedValid == SchemaValid(Initial) /\ Initial \notin {Absent, Torn}

Readable(m) == manifest[m] \notin {Absent, Torn} /\ SchemaValid(manifest[m])

EnabledPairs(m) == {p \in DOMAIN manifest[m] : manifest[m][p].enabled}

\* Variant: the old file is compared with what the manifest declares only.
AsDeclaredOld(e) ==
  /\ \A s \in Side : disk[e.file[s]] # Absent
  /\ e.declared["old"] \in {Undeclared, disk[e.file["old"]]}

(* Both files are there and have the size and hash declared, if any is.    *)
AsDeclared(e) ==
  \A s \in Side :
    /\ disk[e.file[s]] # Absent
    /\ e.declared[s] \in {Undeclared, disk[e.file[s]]}

Loads(m) ==
  Readable(m) /\ \A p \in EnabledPairs(m) : AsDeclared(manifest[m][p])

(***************************************************************************)
(* A tool starts when none runs, and ends or is stopped at any moment.     *)
(***************************************************************************)
Start(record) ==
  /\ job.tool = "none"
  /\ runs < MaxRuns
  /\ runs' = runs + 1
  /\ verified' = {}
  /\ job' = record

End == job' = Idle /\ UNCHANGED runs

Crash ==
  /\ job.tool # "none"
  /\ End
  /\ UNCHANGED <<disk, manifest, verified>>

(* write_text truncates the file, then fills it.                           *)
BeginManifest(m) == manifest' = [manifest EXCEPT ![m] = Torn]

EndManifest(tool, m) ==
  /\ job.tool = tool
  /\ manifest' = [manifest EXCEPT ![m] = job.pending]
  /\ End
  /\ UNCHANGED <<disk, verified>>

(***************************************************************************)
(* register_dataset_artifacts.py --write: records the two files a pair has *)
(* on disk, and may enable it.  The load that follows --enable changes     *)
(* nothing.  --domain, --old-url and --new-url are not given: Real and     *)
(* HasUrl are constants.                                                   *)
(***************************************************************************)
Registered(e, r) ==
  [e EXCEPT !.file = r.file,
            !.declared = [s \in Side |-> disk[r.file[s]]],
            !.documents = @ \cup r.documents,
            !.enabled = @ \/ r.enable]

\* Variant: what register writes is not validated before it is written.
RenderedUnchecked(d) == TRUE

Rendered(d) == SchemaValid(d)

Register(r) ==
  LET d == [manifest["source"] EXCEPT ![r.pair] = Registered(@, r)]
  IN  /\ Readable("source")
      /\ r.pair \in DOMAIN manifest["source"]
      /\ \A s \in Side : disk[r.file[s]] # Absent
      /\ Rendered(d)
      /\ Start([Idle EXCEPT !.tool = "register", !.pending = d])
      /\ BeginManifest("source")
      /\ UNCHANGED disk

(***************************************************************************)
(* download_dataset_artifacts.py: the old and then the new file of each    *)
(* pair, straight to its final path, validated afterwards.                 *)
(***************************************************************************)
Files(p) == <<[pair |-> p, side |-> "old"], [pair |-> p, side |-> "new"]>>

(* The files of the chosen pairs, in the order of the manifest.            *)
Selection(pairs) ==
  FlattenSeq([i \in DOMAIN PairOrder |->
    IF PairOrder[i] \in pairs THEN Files(PairOrder[i]) ELSE << >>])

StartDownload(pairs, force) ==
  /\ Readable("source")
  /\ pairs \subseteq DOMAIN manifest["source"]
  /\ Start([Idle EXCEPT !.tool = "download", !.pairs = pairs,
                        !.left = Selection(pairs), !.force = force])
  /\ UNCHANGED <<disk, manifest>>

NextFile == Head(job.left)
NextEntry == manifest["source"][NextFile.pair]
NextPath == NextEntry.file[NextFile.side]
NextDeclared == NextEntry.declared[NextFile.side]
Downloadable == NextFile.pair \in HasUrl /\ NextDeclared # Undeclared
Downloading == job.tool = "download" /\ job.left # <<>>

DropFile == job' = [job EXCEPT !.left = Tail(@)] /\ UNCHANGED runs

\* Variant: a file that exists is not validated.
SkipAnyExisting == disk[NextPath] # Absent

ExistingAccepted == disk[NextPath] = NextDeclared

(* Without --force a file that exists is validated, not fetched.           *)
KeepExisting ==
  /\ Downloading
  /\ Downloadable
  /\ disk[NextPath] # Absent
  /\ ~job.force
  /\ ExistingAccepted
  /\ DropFile
  /\ UNCHANGED <<disk, manifest, verified>>

BeginFetch(c) ==
  /\ Downloading
  /\ Downloadable
  /\ disk[NextPath] = Absent \/ job.force
  /\ disk' = [disk EXCEPT ![NextPath] = Partial(c)]
  /\ job' = [job EXCEPT !.tool = "fetch", !.pending = c]
  /\ UNCHANGED <<manifest, verified, runs>>

(* The file stays where it is when it is not what was declared.            *)
EndFetch ==
  /\ job.tool = "fetch"
  /\ disk' = [disk EXCEPT ![NextPath] = job.pending]
  /\ IF job.pending = NextDeclared
     THEN job' = [job EXCEPT !.tool = "download", !.pending = <<>>,
                             !.left = Tail(@)]
     ELSE job' = Idle
  /\ UNCHANGED <<manifest, verified, runs>>

(* No URL, no declared hash, or an existing file that differs.             *)
RefuseFile ==
  /\ Downloading
  /\ \/ ~Downloadable
     \/ disk[NextPath] # Absent /\ ~job.force /\ ~ExistingAccepted
  /\ End
  /\ UNCHANGED <<disk, manifest, verified>>

EndDownload ==
  /\ job.tool = "download"
  /\ job.left = <<>>
  /\ verified' = job.pairs
  /\ End
  /\ UNCHANGED <<disk, manifest>>

(***************************************************************************)
(* derive_alpine_rootfs_artifacts.py: unpacks both archives of a pair,     *)
(* replaces each output as a whole, and writes a manifest of the one       *)
(* derived pair, which it validates only afterwards.                       *)
(***************************************************************************)
StartDerive(p) ==
  /\ Readable("source")
  /\ p \in DOMAIN manifest["source"]
  /\ AsDeclared(manifest["source"][p])
  /\ Start([Idle EXCEPT !.tool = "derive", !.pairs = {p},
                        !.left = Files(p)])
  /\ UNCHANGED <<disk, manifest>>

SourceFile == manifest["source"][NextFile.pair].file[NextFile.side]

(* An archive that is cut short cannot be unpacked: the tool stops.        *)
DeriveFile ==
  /\ job.tool = "derive"
  /\ job.left # <<>>
  /\ disk[SourceFile] \in Whole
  /\ disk' = [disk EXCEPT ![RootfsPath[SourceFile]] =
                Normalized(disk[SourceFile])]
  /\ job' = [job EXCEPT !.left = Tail(@)]
  /\ UNCHANGED <<manifest, verified, runs>>

DerivedEntry(e) ==
  [file |-> [s \in Side |-> RootfsPath[e.file[s]]],
   declared |-> [s \in Side |-> disk[RootfsPath[e.file[s]]]],
   documents |-> {"artifact_type", "compression_status"} \cup e.documents,
   enabled |-> TRUE]

BeginDerived ==
  /\ job.tool = "derive"
  /\ job.left = <<>>
  /\ job' = [job EXCEPT !.tool = "derived",
               !.pending = [p \in job.pairs |->
                              DerivedEntry(manifest["source"][p])]]
  /\ BeginManifest("rootfs")
  /\ UNCHANGED <<disk, verified, runs>>

ManifestStep ==
  \/ \E r \in Registrations : Register(r)
  \/ \E pairs \in SUBSET Pair \ {{}}, force \in BOOLEAN :
       StartDownload(pairs, force)
  \/ KeepExisting
  \/ \E c \in Original : BeginFetch(c)
  \/ EndFetch
  \/ RefuseFile
  \/ EndDownload
  \/ \E p \in Pair : StartDerive(p)
  \/ DeriveFile
  \/ BeginDerived
  \/ EndManifest("register", "source")
  \/ EndManifest("derived", "rootfs")

=============================================================================
