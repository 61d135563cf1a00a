------------------------------ MODULE Artifacts ------------------------------
(***************************************************************************)
(* The .liasse container an instance is exported to and restored from      *)
(* (liasse-artifact), and the damage the test kit does to one (liasse-     *)
(* testkit adapter/artifacts.rs): entries corrupted, replaced, removed,    *)
(* added twice, the manifest edited, its checksums computed anew.          *)
(*                                                                         *)
(* Bytes are what they hold: text, a JSON document, a container built from *)
(* an export, or any of these with a byte flipped.  No two bytes have one  *)
(* digest.  A JSON string spells a digest, or something else.              *)
(***************************************************************************)
EXTENDS Naturals, FiniteSets, SequencesExt

CONSTANTS Exports,          \* what instances export, by name
          Incarnations,     \* of the children that may be under modules/
          Escaping,         \* names that leave the root of the container
          Markers,          \* names of directories
          Replacements,     \* bytes put in the place of others: names and bytes
          Edits,            \* members set in the manifest: pointers and documents
          Renamings,        \* identifiers put in the place of others
          MaxModuleDepth,   \* how deep containers may nest
          MaxDamage         \* bound on the damage done to one container

VARIABLES exported,   \* what the container was built from, or NoExport
          archive,    \* the bytes of the container
          damage,     \* how often it was damaged
          rehashed    \* whether checksums were computed anew since

artifactVars == <<exported, archive, damage, rehashed>>

NoExport == ""
Opaque(x) == <<"opaque", x>>
Document(document) == <<"document", document>>
Exported(name) == <<"exported", name>>     \* the container built from an export
Corrupt(bytes) == IF bytes[1] = "corrupt" THEN bytes[2] ELSE <<"corrupt", bytes>>
Digest(bytes) == <<"sha256", bytes>>

MIMETYPE == Opaque("application/vnd.liasse+zip")
Spaced == Opaque(" application/vnd.liasse+zip")
Trimmed(bytes) == IF bytes = Spaced THEN MIMETYPE ELSE bytes

MimetypePath == "mimetype"
ManifestPath == "manifest.json"
DefinitionPath == "liasse.json"
StatePath == "state/current.cbor.zst"
IndexPath == "history/index.json"
ModulePath(incarnation) == "modules/" \o incarnation
IsModulePath(path) == \E i \in Incarnations : path = ModulePath(i)
RequiredEntries == {MimetypePath, DefinitionPath, StatePath, IndexPath}

-----------------------------------------------------------------------------
(* The JSON of the closed structure of format 1: a record has the members  *)
(* of its format and no other, those in the third place may be absent.     *)

Str(x) == <<"string", x>>
Obj(members) == <<"object", members>>

Kind(kind) == <<kind>>
StringFormat == Kind("string")
Record(members, optional) == <<"record", members, optional>>
MapOf(format) == <<"map", format>>

PointFormat == Record([lineage |-> StringFormat, point |-> StringFormat], {})
EntryRefFormat == Record([path |-> StringFormat, sha256 |-> Kind("digest")], {})
ManifestFormat == Record(
  [format |-> Kind("int"), instance |-> StringFormat, selected |-> PointFormat,
   definition |-> Record([identity |-> Kind("digest"), path |-> StringFormat], {}),
   state |-> EntryRefFormat, history |-> EntryRefFormat,
   coverage |-> Record([included |-> MapOf(Record([base |-> StringFormat, tip |-> StringFormat], {})),
                        fully_restorable |-> Kind("bool")], {}),
   modules |-> MapOf(Record([instance |-> StringFormat, artifact |-> StringFormat, selected |-> PointFormat], {})),
   included_modules |-> MapOf(Record([artifact |-> StringFormat, sha256 |-> Kind("digest")], {})),
   entries |-> MapOf(Record([media |-> StringFormat, sha256 |-> Kind("digest")], {}))],
  {"modules", "included_modules"})

RECURSIVE ToJson(_, _), HasFormat(_, _), Meaning(_)
ToJson(v, format) ==
  CASE format[1] = "record" -> Obj([k \in DOMAIN v |-> ToJson(v[k], format[2][k])])
    [] format[1] = "map" -> Obj([k \in DOMAIN v |-> ToJson(v[k], format[2])])
    [] OTHER -> <<format[1], v>>

HasFormat(json, format) ==
  CASE format[1] = "record" ->
         /\ json[1] = "object"
         /\ DOMAIN json[2] \subseteq DOMAIN format[2]
         /\ DOMAIN format[2] \ format[3] \subseteq DOMAIN json[2]
         /\ \A k \in DOMAIN json[2] : HasFormat(json[2][k], format[2][k])
    [] format[1] = "map" -> json[1] = "object" /\ \A k \in DOMAIN json[2] : HasFormat(json[2][k], format[2])
    [] format[1] = "int" -> json = <<"int", 1>>
    [] format[1] = "string" -> json[1] \in {"string", "digest"}
    [] OTHER -> json[1] = format[1]

Meaning(json) ==
  IF json[1] = "object" THEN [k \in DOMAIN json[2] |-> Meaning(json[2][k])] ELSE json[2]

(* Manifest::parse: an optional member that is absent is empty             *)
IsManifest(bytes) == bytes[1] = "document" /\ HasFormat(bytes[2], ManifestFormat)
Manifest(bytes) ==
  LET members == Meaning(bytes[2])
  IN [k \in DOMAIN ManifestFormat[2] |-> IF k \in DOMAIN members THEN members[k] ELSE <<>>]

-----------------------------------------------------------------------------
(* Building.  What is put under one name twice is there once, as it was    *)
(* put last.                                                               *)

LastPut(pairs) ==
  [n \in {pairs[i][1] : i \in DOMAIN pairs} |->
     pairs[CHOOSE i \in DOMAIN pairs :
             pairs[i][1] = n /\ \A j \in DOMAIN pairs : pairs[j][1] = n => j <= i][2]]
Each(s, F(_)) == [i \in DOMAIN s |-> F(s[i])]

(* history_index_bytes, what it says of the lineages left out              *)
HistoryIndex(selected) ==
  Document(Obj([format |-> <<"int", 1>>, selected |-> ToJson(selected, PointFormat)]))

Leaves(parts) ==
  <<<<MimetypePath, MIMETYPE>>, <<DefinitionPath, parts.definition>>,
    <<StatePath, parts.state>>, <<IndexPath, HistoryIndex(parts.selected)>>>> \o parts.sections
Checksum(leaf) == <<leaf[1], [media |-> "", sha256 |-> Digest(leaf[2])]>>
Included(child) ==
  <<child.incarnation, [artifact |-> ModulePath(child.incarnation), sha256 |-> Digest(child.bytes)]>>
Mounted(child) ==
  <<child.mount.name, [instance |-> child.incarnation, artifact |-> ModulePath(child.incarnation),
                       selected |-> child.mount.selected]>>
IsMounted(child) == child.mount # <<>>

(* coverage_of: the one point whose state is carried                       *)
Coverage(selected) ==
  [included |-> [l \in {selected.lineage} |-> [base |-> selected.point, tip |-> selected.point]],
   fully_restorable |-> TRUE]

ManifestOf(parts) ==
  [format |-> 1, instance |-> parts.instance, selected |-> parts.selected,
   definition |-> [identity |-> Digest(parts.definition), path |-> DefinitionPath],
   state |-> [path |-> StatePath, sha256 |-> Digest(parts.state)],
   history |-> [path |-> IndexPath, sha256 |-> Digest(HistoryIndex(parts.selected))],
   coverage |-> Coverage(parts.selected),
   modules |-> LastPut(Each(SelectSeq(parts.children, IsMounted), Mounted)),
   included_modules |-> LastPut(Each(parts.children, Included)),
   entries |-> LastPut(Each(Leaves(parts), Checksum))]

Entry(name, bytes) == [name |-> name, bytes |-> bytes]

(* ArchiveBuilder: mimetype first; the code has the others in the order of *)
(* their names, here they are in that in which they were first added       *)
Written(added) ==
  LET files == LastPut(added)
      Is1st(i) == \A j \in 1..(i - 1) : added[j][1] # added[i][1]
      firsts == SelectSeq([i \in DOMAIN added |-> i], Is1st)
  IN Each(firsts, LAMBDA i : Entry(added[i][1], files[added[i][1]]))

Build(parts) ==
  LET manifest == Document(ToJson(ManifestOf(parts), ManifestFormat))
      Module(child) == <<ModulePath(child.incarnation), child.bytes>>
      leaves == Leaves(parts)
  IN Written(<<Head(leaves), <<ManifestPath, manifest>>>> \o Tail(leaves) \o Each(parts.children, Module))

-----------------------------------------------------------------------------
(* Opening                                                                 *)

(* Archive::read: the names of the directory are those of every record, a  *)
(* name twice included                                                     *)
NamesIn(z) == {z[i].name : i \in DOMAIN z}
Contents(entries) == SelectSeq(entries, LAMBDA e : e.name \notin Markers)
Readable(entries) ==
  LET z == Contents(entries)
  IN NamesIn(z) \cap Escaping = {} /\ \A i, j \in DOMAIN z : z[i].name = z[j].name => i = j

BytesAt(z, name) == z[CHOOSE i \in DOMAIN z : z[i].name = name].bytes
Verified(z, name, digest) == name \in NamesIn(z) /\ Digest(BytesAt(z, name)) = digest

MimetypeIsFirst(z) == z # <<>> /\ z[1].name = MimetypePath /\ Trimmed(z[1].bytes) = MIMETYPE

RolePathsAreCanonical(m) ==
  m.definition.path = DefinitionPath /\ m.state.path = StatePath /\ m.history.path = IndexPath

EntriesAreTheLeaves(m) ==
  /\ RequiredEntries \subseteq DOMAIN m.entries
  /\ \A path \in DOMAIN m.entries : path # ManifestPath /\ ~IsModulePath(path)

EntriesAreVerified(z, m) ==
  /\ \A path \in DOMAIN m.entries : Verified(z, path, m.entries[path].sha256)
  /\ Verified(z, m.state.path, m.state.sha256)
  /\ Verified(z, m.history.path, m.history.sha256)
  /\ m.definition.path \in NamesIn(z)

ModulesAreVerified(z, m) ==
  /\ \A i \in DOMAIN m.included_modules :
       Verified(z, m.included_modules[i].artifact, m.included_modules[i].sha256)
  /\ \A n \in DOMAIN m.modules : m.modules[n].artifact \in NamesIn(z)
ModulePaths(m) ==
  {m.included_modules[i].artifact : i \in DOMAIN m.included_modules}
  \union {m.modules[n].artifact : n \in DOMAIN m.modules}

RECURSIVE Opens(_, _)
OpensBytes(bytes, depth) == bytes[1] = "exported" /\ Opens(Build(Exports[bytes[2]]), depth)
Opens(entries, depth) ==
  /\ depth <= MaxModuleDepth
  /\ Readable(entries)
  /\ LET z == Contents(entries)
     IN /\ MimetypeIsFirst(z)
        /\ ManifestPath \in NamesIn(z)
        /\ IsManifest(BytesAt(z, ManifestPath))
        /\ LET m == Manifest(BytesAt(z, ManifestPath))
           IN /\ RolePathsAreCanonical(m)
              /\ EntriesAreTheLeaves(m)
              /\ EntriesAreVerified(z, m)
              /\ ModulesAreVerified(z, m)
              /\ \A path \in ModulePaths(m) : OpensBytes(BytesAt(z, path), depth + 1)
              /\ Digest(BytesAt(z, m.definition.path)) = m.definition.identity

(* What an opened container hands out                                      *)
Handed(entries) ==
  LET z == Contents(entries)
      m == Manifest(BytesAt(z, ManifestPath))
  IN [manifest |-> m, selected |-> m.selected,
      definition |-> BytesAt(z, m.definition.path),
      state |-> BytesAt(z, m.state.path), index |-> BytesAt(z, m.history.path),
      entries |-> [path \in DOMAIN m.entries |-> BytesAt(z, path)],
      modules |-> [i \in DOMAIN m.included_modules |-> BytesAt(z, m.included_modules[i].artifact)]]

(* verify_selection_coherence: the index says the point the manifest says  *)
IndexSelects(index, selected) ==
  /\ index[1] = "document" /\ index[2][1] = "object" /\ "selected" \in DOMAIN index[2][2]
  /\ index[2][2].selected = ToJson(selected, PointFormat)

(* Engine::restore_from, up to the decoding of the state                   *)
Restores(entries) ==
  Opens(entries, 0) /\ IndexSelects(Handed(entries).index, Handed(entries).selected)

-----------------------------------------------------------------------------
(* Damage.  The test kit reads a container as Archive::read does, and      *)
(* writes the entries back, one name twice if need be.                     *)

NoArtifact == exported = NoExport /\ archive = <<>> /\ damage = 0 /\ rehashed = FALSE
ArtifactInit ==
  exported \in DOMAIN Exports /\ archive = Build(Exports[exported]) /\ damage = 0 /\ rehashed = FALSE

Held == Contents(archive)
Replaced(z, name, bytes) ==
  IF name \in NamesIn(z)
  THEN [i \in DOMAIN z |-> IF z[i].name = name THEN Entry(name, bytes) ELSE z[i]]
  ELSE Append(z, Entry(name, bytes))

Repacked(z) ==
  /\ archive' = z /\ damage' = damage + 1
  /\ UNCHANGED exported

CorruptEntry(name) ==
  name \in NamesIn(Held) /\ Repacked(Replaced(Held, name, Corrupt(BytesAt(Held, name)))) /\ UNCHANGED rehashed
SetEntry(piece) == Repacked(Replaced(Held, piece[1], piece[2])) /\ UNCHANGED rehashed
AddEntry(piece) == Repacked(Append(Held, Entry(piece[1], piece[2]))) /\ UNCHANGED rehashed
RemoveEntry(name) == Repacked(SelectSeq(Held, LAMBDA e : e.name # name)) /\ UNCHANGED rehashed
DuplicateEntry(name) ==
  name \in NamesIn(Held) /\ Repacked(Append(Held, Entry(name, BytesAt(Held, name)))) /\ UNCHANGED rehashed
CopyEntryFrom(other, name) ==
  LET source == Build(Exports[other])
  IN name \in NamesIn(source) /\ Repacked(Replaced(Held, name, BytesAt(source, name))) /\ UNCHANGED rehashed

HasManifest == ManifestPath \in NamesIn(Held) /\ BytesAt(Held, ManifestPath)[1] = "document"
ManifestJson == BytesAt(Held, ManifestPath)[2]
Rewrites(json) == HasManifest /\ Repacked(Replaced(Held, ManifestPath, Document(json)))

(* set_json_pointer: members that are missing on the way are made          *)
RECURSIVE SetAt(_, _, _)
SetAt(json, pointer, new) ==
  IF pointer = <<>> THEN new
  ELSE LET name == Head(pointer)
           under == IF name \in DOMAIN json[2] THEN json[2][name] ELSE Obj(<<>>)
       IN Obj([k \in DOMAIN json[2] \union {name} |->
                 IF k = name THEN SetAt(under, Tail(pointer), new) ELSE json[2][k]])
EditJson(edit) == Rewrites(SetAt(ManifestJson, edit[1], edit[2])) /\ UNCHANGED rehashed

AddManifestEntry(name) ==
  /\ name \in NamesIn(Held)
  /\ Rewrites(SetAt(ManifestJson, <<"entries", name>>,
                    ToJson(Checksum(<<name, BytesAt(Held, name)>>)[2], ManifestFormat[2].entries[2])))
  /\ rehashed' = TRUE

(* rehash: every digest of the manifest that has bytes; of what is no      *)
(* manifest of the format nothing comes that opens                         *)
Rehashed(z, m) ==
  LET Of(path, digest) == IF path \in NamesIn(z) THEN Digest(BytesAt(z, path)) ELSE digest
  IN [m EXCEPT
        !.entries = [p \in DOMAIN @ |-> [@[p] EXCEPT !.sha256 = Of(p, @)]],
        !.state.sha256 = Of(m.state.path, @), !.history.sha256 = Of(m.history.path, @),
        !.included_modules = [i \in DOMAIN @ |-> [@[i] EXCEPT !.sha256 = Of(m.included_modules[i].artifact, @)]]]
FixChecksums ==
  /\ HasManifest /\ IsManifest(BytesAt(Held, ManifestPath))
  /\ Rewrites(ToJson(Rehashed(Held, Manifest(BytesAt(Held, ManifestPath))), ManifestFormat))
  /\ rehashed' = TRUE

RECURSIVE Renamed(_, _)
Renamed(json, names) ==
  LET To(x) == IF x = names[1] THEN names[2] ELSE x
  IN CASE json[1] = "object" ->
            Obj([k \in {To(k) : k \in DOMAIN json[2]} |->
                   Renamed(json[2][CHOOSE j \in DOMAIN json[2] : To(j) = k], names)])
       [] json[1] = "string" -> Str(To(json[2]))
       [] OTHER -> json
RewriteIdentifier(names) ==
  /\ Repacked([i \in DOMAIN Held |->
                 IF Held[i].bytes[1] = "document"
                 THEN Entry(Held[i].name, Document(Renamed(Held[i].bytes[2], names))) ELSE Held[i]])
  /\ UNCHANGED rehashed

ArtifactNext ==
  /\ exported # NoExport /\ damage < MaxDamage /\ Readable(archive)
  /\ \/ \E name \in NamesIn(Held) :
          CorruptEntry(name) \/ RemoveEntry(name) \/ DuplicateEntry(name) \/ AddManifestEntry(name)
     \/ \E piece \in Replacements : SetEntry(piece) \/ AddEntry(piece)
     \/ \E other \in DOMAIN Exports, name \in RequiredEntries \union {ManifestPath} :
          CopyEntryFrom(other, name)
     \/ \E edit \in Edits : EditJson(edit)
     \/ \E names \in Renamings : RewriteIdentifier(names)
     \/ FixChecksums

-----------------------------------------------------------------------------
(* What a well-formed export is: its sections have places of their own,    *)
(* and each child is one, under an incarnation of its own                  *)
Exportable(parts) ==
  /\ \A i \in DOMAIN parts.sections :
       LET path == parts.sections[i][1]
       IN path \notin RequiredEntries \union {ManifestPath} \union Escaping \union Markers /\ ~IsModulePath(path)
  /\ \A i, j \in DOMAIN parts.children : parts.children[i].incarnation = parts.children[j].incarnation => i = j
  /\ \A i \in DOMAIN parts.children : OpensBytes(parts.children[i].bytes, 1)

IsWhatWasExported(handed, parts) ==
  /\ handed.selected = parts.selected /\ handed.definition = parts.definition
  /\ handed.state = parts.state /\ handed.index = HistoryIndex(parts.selected)

HandsOutEverything(handed, parts) ==
  /\ IsWhatWasExported(handed, parts)
  /\ handed.entries = LastPut(Leaves(parts))
  /\ handed.modules = LastPut(Each(parts.children, LAMBDA c : <<c.incarnation, c.bytes>>))

(* The sections the manifest's roles lead to are those its entries certify *)
IsCertified(handed) ==
  LET m == handed.manifest
  IN /\ handed.definition = handed.entries[DefinitionPath]
     /\ handed.state = handed.entries[StatePath] /\ handed.index = handed.entries[IndexPath]
     /\ Digest(handed.definition) = m.definition.identity
     /\ \A i \in DOMAIN handed.modules : OpensBytes(handed.modules[i], 1)

(* A container hands out what was exported, whole; whatever was done to    *)
(* it, one that opens hands out the sections its entries certify; and      *)
(* until checksums are computed anew, one that restores restores the       *)
(* boundary that was exported, and one whose manifest is untouched hands   *)
(* out everything (artifact.rs open, build.rs, history.rs restore_from).   *)
ArtifactsReadBack ==
  exported # NoExport =>
    /\ damage = 0 /\ Exportable(Exports[exported]) => Restores(archive)
    /\ Opens(archive, 0) =>
         LET handed == Handed(archive)
         IN /\ IsCertified(handed)
            /\ Restores(archive) /\ ~rehashed => IsWhatWasExported(handed, Exports[exported])
            /\ handed.manifest = ManifestOf(Exports[exported]) => HandsOutEverything(handed, Exports[exported])
=============================================================================
