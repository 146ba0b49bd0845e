--------------------------- MODULE StartupProofs ----------------------------
(***************************************************************************)
(* Proofs about load_or_create, about the constructor of the trust store,  *)
(* and about the start of the daemon that both are parts of, for every set *)
(* of processes, UUIDs and keypairs.                                       *)
(***************************************************************************)
EXTENDS Startup, TLAPS

(* The kinds of contents are told apart by their first component, and a    *)
(* record can be taken apart again.                                        *)
LEMMA ContentFacts ==
  /\ Absent[1] = "absent" /\ Partial[1] = "partial"
  /\ \A u : Legacy(u)[1] = "legacy" /\ Legacy(u)[2] = u
  /\ \A u : Manifest(u)[1] = "manifest" /\ Manifest(u)[2] = u
  /\ \A u, k : Keys(u, k)[1] = "keys" /\ Keys(u, k)[2] = u /\ Keys(u, k)[3] = k
  BY DEF Absent, Partial, Legacy, Manifest, Keys

(* What every directory that a power loss may leave looks like: the UUID   *)
(* file is the one the installation started with or a marker of its UUID,  *)
(* and there is no key material without its marker.                        *)
Shape(s) ==
  /\ \/ s["device_id"] = legacy
     \/ \E u \in Uuid : s["device_id"] = Manifest(u) /\ legacy \in {Absent, Legacy(u)}
  /\ s["device_id.keys"] # Absent \/ s["device_id.keys.tmp"] # Absent
       => s["device_id"][1] = "manifest"
  /\ \/ s["device_id.keys"] = Absent
     \/ \E u \in Uuid, k \in KeyPair :
          s["device_id.keys"] = Keys(u, k) /\ s["device_id"] = Manifest(u)

(* A directory that a power loss may leave is not ahead of the current     *)
(* one, and keys exist only when the marker is durable.                    *)
NotAhead(s) ==
  /\ s["device_id"] \in {legacy, dir["device_id"]}
  /\ dir["device_id.keys"] # Absent =>
       /\ s["device_id"] = dir["device_id"]
       /\ s["device_id.keys"] \in {Absent, dir["device_id.keys"]}

Writing(p) == pc[p] \in {"create", "write", "sync", "rename", "sync_dir"}

(* While p writes the marker there is no key material anywhere, and no     *)
(* marker before it is renamed.                                            *)
MarkerWriter(p) ==
  /\ \E u \in Uuid : content[p] = Manifest(u) /\ legacy \in {Absent, Legacy(u)}
  /\ \A s \in survivors : s["device_id.keys"] = Absent /\ s["device_id.keys.tmp"] = Absent
  /\ IF At(p, "sync_dir") THEN dir["device_id"] = content[p]
     ELSE \A s \in survivors : s["device_id"] = legacy

(* While p writes the keys the marker is durable, and there is no complete *)
(* key record before it is renamed.                                        *)
KeysWriter(p) ==
  /\ \E u \in Uuid, k \in KeyPair :
       content[p] = Keys(u, k) /\ \A s \in survivors : s["device_id"] = Manifest(u)
  /\ IF At(p, "sync_dir") THEN dir["device_id.keys"] = content[p]
     ELSE \A s \in survivors : s["device_id.keys"] = Absent

(* How far the temporary file is.                                          *)
TemporaryWriter(p) ==
  LET tmp == Temporary(target[p]) IN
  /\ At(p, "write") => dir[tmp] # Absent
  /\ At(p, "sync") \/ At(p, "rename") => dir[tmp] = content[p]
  /\ At(p, "rename") => \A s \in survivors : s[tmp] \in {Absent, content[p]}

(* An identity is created only where none was ever returned.               *)
Writer(p) ==
  /\ returned = {}
  /\ target[p] = "device_id" => MarkerWriter(p)
  /\ target[p] = "device_id.keys" => KeysWriter(p)
  /\ TemporaryWriter(p)

(* A returned identity may lose its keys, never its marker, and no other   *)
(* keys can take their place.                                              *)
Remembered(id, s) ==
  /\ s["device_id"] = Manifest(id[1])
  /\ s["device_id.keys"] \in {Absent, Keys(id[1], id[2])}

Shapes == \A s \in survivors : Shape(s) /\ NotAhead(s)
Writers == \A p \in Process : Writing(p) => Writer(p)
ReturnedStays ==
  IdentityIsUnique /\ \A id \in returned, s \in survivors : Remembered(id, s)

IdentityInv == TypeOK /\ Shapes /\ Writers /\ ReturnedStays

LEMMA InitIdentity == Init => IdentityInv
<1> SUFFICES ASSUME Init PROVE IdentityInv
  OBVIOUS
<1> USE ContentFacts DEF Init
<1>1. TypeOK
  BY DEF TypeOK, Content, Names, PCs
<1>2. Shapes
  BY DEF Shapes, Shape, NotAhead, Names
<1>3. Writers /\ ReturnedStays
  BY DEF Writers, Writing, ReturnedStays, IdentityIsUnique
<1> QED
  BY <1>1, <1>2, <1>3 DEF IdentityInv

(* A sync keeps the current directory and only removes others.             *)
LEMMA SyncNarrows ==
  ASSUME dir \in survivors
  PROVE  /\ SurvivorsOfSync \subseteq survivors /\ dir \in SurvivorsOfSync
         /\ \A s \in SurvivorsOfSync : /\ s["device_id"] = dir["device_id"]
                                       /\ s["device_id.keys"] = dir["device_id.keys"]
  BY DEF SurvivorsOfSync, Names

(* A step that keeps the directory, removes survivors and moves no writer  *)
(* keeps the invariant.                                                    *)
LEMMA Narrowed ==
  ASSUME IdentityInv, dir' = dir, survivors' \subseteq survivors, dir \in survivors',
         UNCHANGED <<legacy, returned, target, content>>,
         lock' \in Process \union {NoProcess}, pc' \in [Process -> PCs],
         \A p \in Process :
           /\ pc'[p] \notin {"idle", "opened"} => lock' = p
           /\ Writing(p)' => pc'[p] = pc[p]
  PROVE  IdentityInv'
<1> USE DEF IdentityInv
<1>1. TypeOK'
  BY DEF TypeOK
<1>2. Shapes'
  BY DEF Shapes, Shape, NotAhead
<1>3. ReturnedStays'
  BY DEF ReturnedStays, IdentityIsUnique, Remembered
<1>4. ASSUME NEW p \in Process, Writing(p)'
      PROVE  Writer(p)'
  <2>1. Writer(p) /\ pc'[p] = pc[p]
    BY <1>4 DEF Writers, Writing
  <2>2. target[p] = "device_id" => MarkerWriter(p)'
    BY <2>1 DEF Writer, MarkerWriter, At
  <2>3. target[p] = "device_id.keys" => KeysWriter(p)'
    BY <2>1 DEF Writer, KeysWriter, At
  <2>4. TemporaryWriter(p)'
    BY <2>1 DEF Writer, TemporaryWriter, At
  <2> QED
    BY <2>1, <2>2, <2>3, <2>4 DEF Writer
<1> QED
  BY <1>1, <1>2, <1>3, <1>4 DEF Writers

(* Directories that agree outside one file name.                           *)
AgreeBut(name, s, t) == \A n \in Names \ {name} : s[n] = t[n]

(* A step of a writer that touches only its temporary file.                *)
LEMMA TemporaryTouched ==
  ASSUME IdentityInv, NEW p \in Process, Writing(p), ~At(p, "sync_dir"),
         NEW x \in {"write", "sync", "rename"}, Goto(p, x),
         UNCHANGED <<lock, target, content, legacy, returned>>,
         AgreeBut(Temporary(target[p]), dir, dir'),
         \A t \in survivors' : \E s \in survivors : AgreeBut(Temporary(target[p]), s, t),
         TypeOK', TemporaryWriter(p)'
  PROVE  IdentityInv'
<1> USE DEF IdentityInv
<1>1. Writer(p) /\ pc'[p] = x /\ x # "sync_dir" /\ returned = {}
  BY DEF Writers, Writer, Goto, TypeOK
<1>2. target[p] \in {"device_id", "device_id.keys"}
  BY DEF TypeOK
<1>3. \A t \in survivors' : \E s \in survivors :
        /\ t["device_id"] = s["device_id"] /\ t["device_id.keys"] = s["device_id.keys"]
        /\ target[p] = "device_id" => t["device_id.keys.tmp"] = s["device_id.keys.tmp"]
  BY <1>2 DEF AgreeBut, Temporary, Names
<1>4. dir'["device_id"] = dir["device_id"] /\ dir'["device_id.keys"] = dir["device_id.keys"]
  BY <1>2 DEF AgreeBut, Temporary, Names
<1>5. target[p] = "device_id.keys" => \A s \in survivors : s["device_id"][1] = "manifest"
  BY <1>1, ContentFacts DEF Writer, KeysWriter
<1>6. Shapes'
  BY <1>2, <1>3, <1>4, <1>5 DEF Shapes, Shape, NotAhead
<1>7. ReturnedStays'
  BY <1>1 DEF ReturnedStays, IdentityIsUnique
<1>8. Writer(p)'
  <2>1. target[p] = "device_id" => MarkerWriter(p)'
    BY <1>1, <1>3 DEF Writer, MarkerWriter, At
  <2>2. target[p] = "device_id.keys" => KeysWriter(p)'
    BY <1>1, <1>3 DEF Writer, KeysWriter, At
  <2> QED
    BY <1>1, <2>1, <2>2 DEF Writer
<1>9. \A q \in Process : Writing(q)' => q = p
  BY DEF Writing, TypeOK, Goto
<1> QED
  BY <1>6, <1>7, <1>8, <1>9 DEF Writers

(* One step for each action of load_or_create and its environment.         *)
LEMMA IdentityPreserved == IdentityInv /\ [Next]_vars => IdentityInv'
<1> SUFFICES ASSUME IdentityInv, [Next]_vars PROVE IdentityInv'
  OBVIOUS
<1> USE DEF IdentityInv
<1>1. ASSUME NEW p \in Process, OpenIdentityDirectory(p) PROVE IdentityInv'
  BY <1>1, SyncNarrows, Narrowed DEF OpenIdentityDirectory, TypeOK, At, Goto, Writing, PCs
<1>2. ASSUME NEW p \in Process, AcquireLock(p) PROVE IdentityInv'
  BY <1>2, Narrowed, IdentityAssumption DEF AcquireLock, TypeOK, At, Goto, Writing, PCs
<1>3. ASSUME NEW p \in Process, Fail(p) PROVE IdentityInv'
  BY <1>3, Narrowed, IdentityAssumption DEF Fail, Leave, TypeOK, At, Goto, Writing, PCs
<1>4. ASSUME PowerLoss PROVE IdentityInv'
  <2>1. TypeOK'
    BY <1>4 DEF PowerLoss, TypeOK, PCs
  <2>2. Shapes'
    BY <1>4 DEF PowerLoss, Shapes, Shape, NotAhead
  <2>3. Writers' /\ ReturnedStays'
    BY <1>4 DEF PowerLoss, Writers, Writing, ReturnedStays, IdentityIsUnique, Remembered
  <2> QED
    BY <2>1, <2>2, <2>3
<1>5. ASSUME NEW p \in Process, Load(p) PROVE IdentityInv'
  <2>1. PICK u \in Uuid, k \in KeyPair :
          Established(u, k) /\ returned' = returned \union {<<u, k>>}
    BY <1>5 DEF Load
  <2>2. TypeOK'
    BY <1>5, <2>1, IdentityAssumption DEF Load, Leave, TypeOK, At, Goto, PCs
  <2>3. Shapes'
    BY <1>5 DEF Load, Leave, Shapes, Shape, NotAhead
  <2>4. Writers'
    BY <1>5 DEF Load, Leave, Goto, At, Writers, Writing, TypeOK, PCs
  <2>5. \A s \in survivors : Remembered(<<u, k>>, s)
    BY <2>1, ContentFacts DEF Shapes, NotAhead, Established, Remembered
  <2>6. \A id \in returned : id = <<u, k>>
    <3> SUFFICES ASSUME NEW id \in returned PROVE id = <<u, k>>
      OBVIOUS
    <3>1. Manifest(id[1]) = Manifest(u) /\ Keys(id[1], id[2]) = Keys(u, k)
      BY <2>1, ContentFacts DEF Established, ReturnedStays, Remembered, TypeOK
    <3>2. id[1] = u /\ id[2] = k
      BY <3>1, ContentFacts
    <3> QED
      BY <3>2 DEF TypeOK
  <2>7. ReturnedStays'
    BY <1>5, <2>1, <2>5, <2>6 DEF Load, ReturnedStays, IdentityIsUnique, Remembered
  <2> QED
    BY <2>2, <2>3, <2>4, <2>7
<1>6. ASSUME NEW p \in Process, StartCreation(p) PROVE IdentityInv'
  <2>1. PICK u \in Uuid : Creatable(u) /\ content' = [content EXCEPT ![p] = Manifest(u)]
    BY <1>6 DEF StartCreation
  <2>2. TypeOK'
    BY <1>6, <2>1 DEF StartCreation, TypeOK, At, Goto, PCs, Content
  <2>3. Shapes' /\ ReturnedStays'
    BY <1>6
       DEF StartCreation, Shapes, Shape, NotAhead, ReturnedStays, IdentityIsUnique, Remembered
  <2>4. dir["device_id"] = legacy /\ legacy \in {Absent, Legacy(u)}
    BY <2>1, ContentFacts DEF Creatable, Shapes, Shape, TypeOK
  <2>5. \A s \in survivors : s["device_id"] = legacy
    BY <2>4 DEF Shapes, NotAhead
  <2>6. \A s \in survivors : s["device_id.keys"] = Absent /\ s["device_id.keys.tmp"] = Absent
    BY <2>4, <2>5, ContentFacts DEF Shapes, Shape
  <2>7. returned = {}
    BY <2>4, ContentFacts DEF ReturnedStays, IdentityIsUnique, Remembered, TypeOK
  <2>8. Writer(p)'
    BY <1>6, <2>1, <2>4, <2>5, <2>6, <2>7
       DEF StartCreation, Writer, MarkerWriter, TemporaryWriter, At, Goto, TypeOK
  <2>9. \A q \in Process : Writing(q)' => q = p
    BY <1>6 DEF StartCreation, Writing, TypeOK, At, Goto
  <2> QED
    BY <2>2, <2>3, <2>8, <2>9 DEF Writers
<1>7. ASSUME NEW p \in Process, CreateTemporary(p) PROVE IdentityInv'
  <2> DEFINE tmp == Temporary(target[p])
  <2>1. tmp \in Names /\ Writing(p) /\ ~At(p, "sync_dir")
    BY <1>7 DEF CreateTemporary, TypeOK, Temporary, Names, Writing, At
  <2>2. TypeOK'
    <3>1. Partial \in Content
      BY DEF Content
    <3>2. dir' \in [Names -> Content] /\ dir' \in survivors'
      BY <1>7, <2>1, <3>1 DEF CreateTemporary, TypeOK
    <3>3. survivors' \subseteq [Names -> Content]
      BY <1>7, <2>1, <3>1 DEF CreateTemporary, TypeOK
    <3> QED
      BY <1>7, <3>2, <3>3 DEF CreateTemporary, TypeOK, At, Goto, PCs
  <2>3. /\ AgreeBut(tmp, dir, dir')
        /\ \A t \in survivors' : \E s \in survivors : AgreeBut(tmp, s, t)
    BY <1>7, <2>1 DEF CreateTemporary, AgreeBut, TypeOK
  <2>4. TemporaryWriter(p)'
    BY <1>7, <2>1, ContentFacts DEF CreateTemporary, TemporaryWriter, At, Goto, TypeOK
  <2> QED
    BY <1>7, <2>1, <2>2, <2>3, <2>4, TemporaryTouched DEF CreateTemporary
<1>8. ASSUME NEW p \in Process, WriteTemporary(p) PROVE IdentityInv'
  <2> DEFINE tmp == Temporary(target[p])
  <2>1. tmp \in Names /\ Writing(p) /\ ~At(p, "sync_dir")
    BY <1>8 DEF WriteTemporary, TypeOK, Temporary, Names, Writing, At
  <2>2. dir[tmp] # Absent
    BY <1>8, <2>1 DEF WriteTemporary, Writers, Writer, TemporaryWriter
  <2>3. content[p] \in Content /\ Prefixes(content[p]) \subseteq Content
        /\ content[p] \in Prefixes(content[p])
    BY ContentFacts DEF TypeOK, Content, Prefixes
  <2>4. TypeOK'
    <3>1. dir' = [dir EXCEPT ![tmp] = content[p]] /\ dir' \in [Names -> Content]
      BY <1>8, <2>1, <2>3 DEF WriteTemporary, TypeOK
    <3>2. dir \in {t \in survivors : t[tmp] # Absent}
      BY <2>2 DEF TypeOK
    <3>3. dir' \in survivors'
      <4> DEFINE written == {[s EXCEPT ![tmp] = c] : s \in {t \in survivors : t[tmp] # Absent},
                                                     c \in Prefixes(content[p])}
      <4>1. survivors' = survivors \union written
        BY <1>8 DEF WriteTemporary
      <4>2. [dir EXCEPT ![tmp] = content[p]] \in written
        <5>1. \E s \in {t \in survivors : t[tmp] # Absent}, c \in Prefixes(content[p]) :
                [dir EXCEPT ![tmp] = content[p]] = [s EXCEPT ![tmp] = c]
          BY <2>3, <3>2
        <5> QED
          BY <5>1
      <4> HIDE DEF written
      <4> QED
        BY <3>1, <4>1, <4>2
    <3>4. survivors' \subseteq [Names -> Content]
      BY <1>8, <2>1, <2>3 DEF WriteTemporary, TypeOK
    <3> QED
      BY <1>8, <3>1, <3>3, <3>4 DEF WriteTemporary, TypeOK, At, Goto, PCs
  <2>5. /\ AgreeBut(tmp, dir, dir')
        /\ \A t \in survivors' : \E s \in survivors : AgreeBut(tmp, s, t)
    BY <1>8, <2>1 DEF WriteTemporary, AgreeBut, TypeOK
  <2>6. TemporaryWriter(p)'
    BY <1>8, <2>1 DEF WriteTemporary, TemporaryWriter, At, Goto, TypeOK
  <2> QED
    BY <1>8, <2>1, <2>4, <2>5, <2>6, TemporaryTouched DEF WriteTemporary
<1>9. ASSUME NEW p \in Process, SyncTemporary(p) PROVE IdentityInv'
  <2> DEFINE tmp == Temporary(target[p])
  <2>1. tmp \in Names /\ Writing(p) /\ ~At(p, "sync_dir")
    BY <1>9 DEF SyncTemporary, TypeOK, Temporary, Names, Writing, At
  <2>2. dir[tmp] = content[p]
    BY <1>9, <2>1 DEF SyncTemporary, Writers, Writer, TemporaryWriter
  <2>3. TypeOK'
    BY <1>9, <2>1, <2>2 DEF SyncTemporary, TypeOK, At, Goto, PCs
  <2>4. /\ AgreeBut(tmp, dir, dir')
        /\ \A t \in survivors' : \E s \in survivors : AgreeBut(tmp, s, t)
    BY <1>9, <2>1 DEF SyncTemporary, AgreeBut, TypeOK
  <2>5. TemporaryWriter(p)'
    BY <1>9, <2>1, <2>2 DEF SyncTemporary, TemporaryWriter, At, Goto, TypeOK
  <2> QED
    BY <1>9, <2>1, <2>3, <2>4, <2>5, TemporaryTouched DEF SyncTemporary
<1>10. ASSUME NEW p \in Process, Publish(p) PROVE IdentityInv'
  <2> DEFINE tmp == Temporary(target[p])
             Renamed(s) == IF s[tmp] = Absent THEN s
                           ELSE [s EXCEPT ![target[p]] = s[tmp], ![tmp] = Absent]
  <2>1. /\ target[p] \in {"device_id", "device_id.keys"} /\ tmp \in Names /\ target[p] \in Names
        /\ Writing(p) /\ Writer(p) /\ returned = {}
    BY <1>10 DEF Publish, TypeOK, Temporary, Names, Writing, At, Writers, Writer
  <2>2. /\ dir[tmp] = content[p] /\ content[p] # Absent
        /\ \A s \in survivors : s[tmp] \in {Absent, content[p]}
    BY <1>10, <2>1, ContentFacts DEF Publish, Writer, MarkerWriter, KeysWriter, TemporaryWriter
  <2>3. dir' = Renamed(dir) /\ survivors' = survivors \union {Renamed(s) : s \in survivors}
    BY <1>10 DEF Publish
  <2>4. TypeOK'
    <3>1. Absent \in Content /\ content[p] \in Content
      BY DEF Content, TypeOK
    <3>2. dir' \in [Names -> Content] /\ dir' \in survivors'
      BY <2>1, <2>2, <2>3, <3>1 DEF TypeOK
    <3>3. survivors' \subseteq [Names -> Content]
      BY <2>1, <2>2, <2>3, <3>1 DEF TypeOK
    <3> QED
      BY <1>10, <3>2, <3>3 DEF Publish, TypeOK, At, Goto, PCs
  <2>5. \A s \in survivors : s \in [Names -> Content]
    BY DEF TypeOK
  <2>6. \A t \in survivors' : \E s \in survivors :
          \/ t = s
          \/ /\ s[tmp] = content[p] /\ t[target[p]] = content[p]
             /\ \A n \in Names \ {tmp, target[p]} : t[n] = s[n]
    BY <2>1, <2>2, <2>3, <2>5 DEF Temporary
  <2>7. /\ dir'[target[p]] = content[p]
        /\ \A n \in Names \ {tmp, target[p]} : dir'[n] = dir[n]
    BY <2>1, <2>2, <2>3, <2>5 DEF Temporary, TypeOK
  <2>8. pc'[p] = "sync_dir" /\ \A q \in Process : Writing(q)' => q = p
    BY <1>10 DEF Publish, Writing, TypeOK, At, Goto
  <2>9. CASE target[p] = "device_id"
    <3>1. PICK u \in Uuid : content[p] = Manifest(u) /\ legacy \in {Absent, Legacy(u)}
      BY <2>1, <2>9 DEF Writer, MarkerWriter
    <3>2. \A t \in survivors' : /\ t["device_id"] \in {legacy, content[p]}
                               /\ t["device_id.keys"] = Absent /\ t["device_id.keys.tmp"] = Absent
      BY <1>10, <2>1, <2>6, <2>9 DEF Publish, At, Writer, MarkerWriter, Temporary, Names
    <3>3. dir'["device_id"] = content[p] /\ dir'["device_id.keys"] = Absent
      BY <2>4, <2>7, <2>9, <3>2 DEF TypeOK
    <3>4. Shapes'
      BY <1>10, <3>1, <3>2, <3>3 DEF Publish, Shapes, Shape, NotAhead
    <3>5. MarkerWriter(p)'
      BY <1>10, <2>8, <3>1, <3>2, <3>3 DEF Publish, MarkerWriter, At
    <3>6. Writer(p)'
      BY <1>10, <2>1, <2>8, <2>9, <3>5 DEF Publish, Writer, TemporaryWriter, At
    <3> QED
      BY <1>10, <2>1, <2>4, <2>8, <3>4, <3>6
         DEF Publish, Writers, ReturnedStays, IdentityIsUnique
  <2>10. CASE target[p] = "device_id.keys"
    <3>1. PICK u \in Uuid, k \in KeyPair :
            content[p] = Keys(u, k) /\ \A s \in survivors : s["device_id"] = Manifest(u)
      BY <2>1, <2>10 DEF Writer, KeysWriter
    <3>2. \A t \in survivors' : /\ t["device_id"] = Manifest(u)
                               /\ t["device_id.keys"] \in {Absent, content[p]}
      BY <1>10, <2>1, <2>6, <2>10, <3>1 DEF Publish, At, Writer, KeysWriter, Temporary, Names
    <3>3. dir'["device_id"] = Manifest(u) /\ dir'["device_id.keys"] = content[p]
      BY <2>4, <2>7, <2>10, <3>2 DEF TypeOK
    <3>4. legacy \in {Absent, Legacy(u)} /\ legacy' = legacy
      BY <1>10, <3>1, ContentFacts DEF Publish, Shapes, Shape, TypeOK
    <3>5. Shapes'
      BY <3>1, <3>2, <3>3, <3>4, ContentFacts DEF Shapes, Shape, NotAhead
    <3>6. KeysWriter(p)'
      BY <1>10, <2>8, <3>1, <3>2, <3>3 DEF Publish, KeysWriter, At
    <3>7. Writer(p)'
      BY <1>10, <2>1, <2>8, <2>10, <3>6 DEF Publish, Writer, TemporaryWriter, At
    <3> QED
      BY <1>10, <2>1, <2>4, <2>8, <3>5, <3>7
         DEF Publish, Writers, ReturnedStays, IdentityIsUnique
  <2> QED
    BY <2>1, <2>9, <2>10
<1>11. ASSUME NEW p \in Process, CommitMarker(p) PROVE IdentityInv'
  <2>1. PICK k \in KeyPair : content' = [content EXCEPT ![p] = Keys(content[p][2], k)]
    BY <1>11 DEF CommitMarker
  <2>2. Writer(p) /\ MarkerWriter(p) /\ returned = {}
    BY <1>11 DEF CommitMarker, Writers, Writing, Writer, At
  <2>3. PICK u \in Uuid : content[p] = Manifest(u) /\ legacy \in {Absent, Legacy(u)}
    BY <2>2 DEF MarkerWriter
  <2>4. content' = [content EXCEPT ![p] = Keys(u, k)]
    BY <2>1, <2>3, ContentFacts
  <2>5. /\ dir["device_id"] = Manifest(u) /\ dir["device_id.keys"] = Absent
        /\ survivors' \subseteq survivors /\ dir \in survivors'
        /\ \A s \in survivors' : s["device_id"] = Manifest(u) /\ s["device_id.keys"] = Absent
    BY <1>11, <2>2, <2>3, SyncNarrows DEF CommitMarker, MarkerWriter, At, TypeOK
  <2>6. TypeOK'
    BY <1>11, <2>4, <2>5 DEF CommitMarker, TypeOK, At, Goto, PCs, Content
  <2>7. Shapes'
    BY <1>11, <2>5 DEF CommitMarker, Shapes, Shape, NotAhead
  <2>8. Writer(p)'
    BY <1>11, <2>2, <2>4, <2>5
       DEF CommitMarker, Writer, KeysWriter, TemporaryWriter, At, Goto, TypeOK
  <2>9. \A q \in Process : Writing(q)' => q = p
    BY <1>11 DEF CommitMarker, Writing, TypeOK, At, Goto
  <2> QED
    BY <1>11, <2>2, <2>6, <2>7, <2>8, <2>9
       DEF CommitMarker, Writers, ReturnedStays, IdentityIsUnique
<1>12. ASSUME NEW p \in Process, CommitKeys(p) PROVE IdentityInv'
  <2>1. Writer(p) /\ KeysWriter(p) /\ returned = {}
    BY <1>12 DEF CommitKeys, Writers, Writing, Writer, At
  <2>2. PICK u \in Uuid, k \in KeyPair :
          content[p] = Keys(u, k) /\ \A s \in survivors : s["device_id"] = Manifest(u)
    BY <2>1 DEF KeysWriter
  <2>3. returned' = {<<u, k>>}
    <3>1. Keys(u, k)[2] = u /\ Keys(u, k)[3] = k
      BY ContentFacts
    <3>2. returned' = returned \union {<<content[p][2], content[p][3]>>}
      BY <1>12 DEF CommitKeys
    <3> QED
      BY <2>1, <2>2, <3>1, <3>2
  <2>4. /\ survivors' \subseteq survivors /\ dir \in survivors'
        /\ \A s \in survivors' : s["device_id"] = Manifest(u) /\ s["device_id.keys"] = Keys(u, k)
    BY <1>12, <2>1, <2>2, SyncNarrows DEF CommitKeys, KeysWriter, At, TypeOK
  <2>5. TypeOK'
    BY <1>12, <2>3, <2>4, IdentityAssumption DEF CommitKeys, Leave, TypeOK, At, Goto, PCs
  <2>6. Shapes'
    BY <1>12, <2>4 DEF CommitKeys, Shapes, Shape, NotAhead
  <2>7. Writers'
    BY <1>12 DEF CommitKeys, Leave, Goto, At, Writers, Writing, TypeOK, PCs
  <2>8. ReturnedStays'
    BY <2>3, <2>4 DEF ReturnedStays, IdentityIsUnique, Remembered
  <2> QED
    BY <2>5, <2>6, <2>7, <2>8
<1>13. CASE UNCHANGED vars
  BY <1>13, Narrowed DEF vars, TypeOK, Writing
<1> QED
  BY <1>1, <1>2, <1>3, <1>4, <1>5, <1>6, <1>7, <1>8, <1>9, <1>10, <1>11, <1>12, <1>13
     DEF Next, LoadOrCreate

(* load_or_create keeps its invariant, whatever processes start together,  *)
(* are killed between two system calls or lose power.                      *)
THEOREM IdentityInvariant == Spec => []IdentityInv
  BY InitIdentity, IdentityPreserved, PTL DEF Spec

(* load_or_create never returns two different identities.                  *)
THEOREM IdentityUnique == Spec => []IdentityIsUnique
<1>1. IdentityInv => IdentityIsUnique
  BY DEF IdentityInv, ReturnedStays
<1> QED
  BY <1>1, IdentityInvariant, PTL

(* An interrupted or repeated migration keeps the UUID of a legacy file.   *)
THEOREM MigrationSafe == Spec => []MigrationKeepsUuid
<1>1. IdentityInv => MigrationKeepsUuid
  <2> SUFFICES ASSUME IdentityInv, NEW id \in returned PROVE legacy \in {Absent, Legacy(id[1])}
    BY DEF MigrationKeepsUuid
  <2>1. dir["device_id"] = Manifest(id[1])
    BY DEF IdentityInv, TypeOK, ReturnedStays, IdentityIsUnique, Remembered
  <2>2. Shape(dir)
    BY DEF IdentityInv, TypeOK, Shapes
  <2>3. legacy # Manifest(id[1])
    BY ContentFacts DEF IdentityInv, TypeOK
  <2> QED
    BY <2>1, <2>2, <2>3, ContentFacts DEF Shape
<1> QED
  BY <1>1, IdentityInvariant, PTL

(* No kill and no power loss leaves key material without its marker.       *)
THEOREM KeysMarked == Spec => []KeysHaveMarker
<1>1. IdentityInv => KeysHaveMarker
  BY ContentFacts DEF IdentityInv, Shapes, Shape, KeysHaveMarker
<1> QED
  BY <1>1, IdentityInvariant, PTL
-----------------------------------------------------------------------------
InConstructor(p) ==
  store_pc[p] \in {"locked", "created", "check", "checked", "journal", "migrate", "committed"}

SomeOpen == \E p \in Daemon : StoreAt(p, "open")

(* A constructor past its flock holds the lock, and only such a one can    *)
(* have created the file.                                                  *)
Locked ==
  \A p \in Daemon : /\ InConstructor(p) => store_lock = p
                    /\ StoreAt(p, "created") => ~existing[p]
                    /\ ~existing[p] => InConstructor(p) /\ ~StoreAt(p, "locked")

(* What a constructor that created the file finds, and leaves behind.      *)
Created(p) ==
  /\ store_pc[p] \in {"created", "check", "checked", "journal"} => main = Short /\ wal = Missing
  /\ store_pc[p] \in {"check", "checked", "journal"} => "main" \notin unsynced
  /\ StoreAt(p, "migrate") => main = Empty /\ wal = Short

(* What a constructor that found the file has checked.                     *)
Found(p) ==
  /\ store_pc[p] \in {"check", "checked", "journal", "migrate"} => main.kind = "database"
  /\ store_pc[p] \in {"journal", "migrate"} => Recognised(Current)

Positions == \A p \in Daemon : IF existing[p] THEN Found(p) ELSE Created(p)

(* A log with commits has its database, and is of our schema if it was     *)
(* created by one of our processes; it is there, by a durable name, as     *)
(* long as a store is open.                                                *)
Log ==
  /\ wal.kind = "database" => main.kind = "database"
  /\ "wal" \in unsynced /\ wal.kind = "database" => Recognised(wal)
  /\ \A p \in Daemon :
       store_pc[p] \in {"committed", "open"} => wal.kind = "database" /\ Recognised(wal)
  /\ SomeOpen => "wal" \notin unsynced
  /\ "main" \in unsynced => main = Short /\ wal = Missing

(* A database of our schema holds every row that was reported, with the    *)
(* log and, as long as the name of the log can be lost, without it.        *)
Rows ==
  /\ Recognised(Current) => Current.rows = acked
  /\ "wal" \in unsynced /\ Recognised(main) => main.rows = acked
  /\ acked > 0 \/ SomeOpen =>
       Recognised(Current) /\ ("wal" \in unsynced => Recognised(main))

OpenInv == StoreTypeOK /\ Locked /\ Positions /\ Log /\ Rows

-----------------------------------------------------------------------------
(* The kinds of files are told apart by their kind, and what is recognised *)
(* keeps its schema when a row is added.                                   *)
LEMMA InFile ==
  /\ {Missing, Short, Empty} \subseteq File
  /\ \A v \in 1 .. Newer, r \in 0 .. MaxRows : Ours(v, r) \in File
  BY StoreAssumption DEF File, DatabaseFile, Empty, Ours, Database, Newer, VERSION

LEMMA FileFacts ==
  /\ Missing.kind = "missing" /\ Short.kind = "short"
  /\ Empty.kind = "database" /\ Empty.rows = 0 /\ ~Recognised(Empty)
  /\ \A v \in 1 .. VERSION, r \in 0 .. MaxRows :
       /\ Recognised(Ours(v, r)) /\ Ours(v, r).rows = r /\ Ours(v, r).kind = "database"
  BY DEF Missing, Short, Empty, Ours, Database, Recognised, VERSION

LEMMA FileKinds ==
  ASSUME NEW f \in File
  PROVE  /\ f.kind \in {"missing", "short", "database"}
         /\ f.kind = "missing" <=> f = Missing
         /\ f.kind = "short" <=> f = Short
         /\ f.kind = "database" => f.rows \in 0 .. MaxRows
         /\ Recognised(f) => f.kind = "database"
  BY DEF Missing, Short, Ours, Database, Recognised, VERSION, Newer, File, DatabaseFile

LEMMA RowAdded ==
  ASSUME NEW f \in File, Recognised(f), f.rows < MaxRows
  PROVE  LET g == [f EXCEPT !.rows = @ + 1]
         IN g \in File /\ g.kind = "database" /\ Recognised(g) /\ g.rows = f.rows + 1
<1> DEFINE g == [f EXCEPT !.rows = @ + 1]
<1>1. f \in DatabaseFile
  BY DEF File, Missing, Short, Recognised
<1>2. f.rows + 1 \in 0 .. MaxRows
  BY <1>1, StoreAssumption DEF DatabaseFile
<1>3. g \in DatabaseFile
  BY <1>1, <1>2 DEF DatabaseFile
<1>4. g.kind = "database" /\ g.rows = f.rows + 1 /\ g.app = f.app /\ g.version = f.version
  BY <1>1 DEF DatabaseFile
<1> QED
  BY <1>3, <1>4 DEF File, Recognised

LEMMA InitOpen == StoreInit => OpenInv
<1> SUFFICES ASSUME StoreInit PROVE OpenInv
  OBVIOUS
<1>0. Earlier \subseteq DatabaseFile
  <2>1. \A r \in 0 .. 1 : r \in 0 .. MaxRows
    BY StoreAssumption
  <2>2. ASSUME NEW r \in 0 .. 1 PROVE Database(FALSE, 0, r) \in DatabaseFile
    BY <2>1 DEF DatabaseFile, Database, Newer, VERSION
  <2>3. ASSUME NEW v \in 1 .. Newer, NEW r \in 0 .. 1 PROVE Ours(v, r) \in DatabaseFile
    BY <2>1 DEF DatabaseFile, Ours, Database, Newer, VERSION
  <2>4. ASSUME NEW f \in Earlier PROVE f \in DatabaseFile
    <3>1. \/ \E r \in 0 .. 1 : f = Database(FALSE, 0, r)
          \/ \E v \in 1 .. Newer, r \in 0 .. 1 : f = Ours(v, r)
      BY <2>4 DEF Earlier, Ours, Database
    <3> QED
      BY <2>2, <2>3, <3>1, Zenon
  <2> QED
    BY <2>4
<1>k. \A f \in DatabaseFile : f.kind = "database" /\ f \in File
  BY DEF DatabaseFile, File
<1>w. /\ main \in {Missing, Short} \union Earlier
      /\ wal \in {Missing, Short} \/ (main \in Earlier /\ wal \in Earlier)
  BY DEF StoreInit, LogsOf
<1>f. main \in File /\ wal \in File /\ Current \in File
  BY <1>0, <1>k, <1>w, InFile DEF Current, Recovered
<1>1. StoreTypeOK
  <2>1. acked \in 0 .. MaxRows
    BY <1>f, FileKinds, StoreAssumption DEF StoreInit
  <2> QED
    BY <1>f, <2>1 DEF StoreInit, StoreTypeOK, StorePC
<1>2. Locked /\ Positions
  BY DEF StoreInit, Locked, Positions, InConstructor, Found, StoreAt
<1>3. Log
  <2>1. wal.kind = "database" => main.kind = "database"
    BY <1>0, <1>k, <1>w, FileFacts
  <2> QED
    BY <2>1 DEF StoreInit, Log, SomeOpen, StoreAt
<1>4. Rows
  BY DEF StoreInit, Rows, SomeOpen, StoreAt
<1> QED
  BY <1>1, <1>2, <1>3, <1>4 DEF OpenInv

(* Every step of a constructor, of an open store, of SQLite and of a power *)
(* loss keeps the invariant.                                               *)
LEMMA OpenPreserved == OpenInv /\ [StoreNext]_storeVars => OpenInv'
<1> SUFFICES ASSUME OpenInv, [StoreNext]_storeVars PROVE OpenInv'
  OBVIOUS
<1>0. /\ main \in File /\ wal \in File /\ unsynced \subseteq {"main", "wal"}
      /\ store_lock \in Daemon \union {Nobody} /\ Nobody \notin Daemon
      /\ store_pc \in [Daemon -> StorePC] /\ existing \in [Daemon -> BOOLEAN]
      /\ acked \in 0 .. MaxRows /\ MaxRows \in Nat
  BY StoreAssumption DEF OpenInv, StoreTypeOK
<1>k. \A f \in File : /\ f.kind \in {"missing", "short", "database"}
                      /\ f.kind = "missing" <=> f = Missing
                      /\ f.kind = "short" <=> f = Short
                      /\ f.kind = "database" => f.rows \in 0 .. MaxRows
                      /\ Recognised(f) => f.kind = "database"
  BY FileKinds
<1>f. /\ {Missing, Short, Empty} \subseteq File
      /\ Missing.kind = "missing" /\ Short.kind = "short"
      /\ Empty.kind = "database" /\ Empty.rows = 0
      /\ ~Recognised(Missing) /\ ~Recognised(Short) /\ ~Recognised(Empty)
  BY InFile, FileFacts, FileKinds
<1>c. Current \in File /\ Current = IF wal.kind = "database" THEN wal ELSE main
  BY <1>0 DEF OpenInv, Log, Current, Recovered
<1>1. ASSUME NEW p \in Daemon, OpenStateDirectory(p) PROVE OpenInv'
  <2>1. StoreTypeOK'
    BY <1>1, <1>0, <1>k, InFile
       DEF OpenStateDirectory, StoreTypeOK, StorePC, StoreAt, StoreGoto, LeaveStore
  <2>2. Locked'
    BY <1>1, <1>0
       DEF OpenInv, OpenStateDirectory, Locked, InConstructor, StoreAt, StoreGoto, LeaveStore,
           StorePC
  <2>3. Positions'
    BY <1>1, <1>0, <1>k
       DEF OpenInv, OpenStateDirectory, Locked, InConstructor, Positions, Found, Created,
           Current, Recovered, StoreAt, StoreGoto, LeaveStore, StorePC
  <2>4. Log'
    BY <1>1, <1>0, <1>k
       DEF OpenInv, OpenStateDirectory, Locked, InConstructor, Log, SomeOpen, StoreAt,
           StoreGoto, LeaveStore, StorePC
  <2>5. Rows'
    BY <1>1, <1>0, <1>k
       DEF OpenInv, OpenStateDirectory, Locked, InConstructor, Log, Rows, SomeOpen, Current,
           Recovered, StoreAt, StoreGoto, LeaveStore, StorePC
  <2> QED
    BY <2>1, <2>2, <2>3, <2>4, <2>5 DEF OpenInv
<1>2. ASSUME NEW p \in Daemon, LockStore(p) PROVE OpenInv'
  <2>1. StoreTypeOK'
    BY <1>2, <1>0, <1>k, InFile
       DEF LockStore, StoreTypeOK, StorePC, StoreAt, StoreGoto, LeaveStore
  <2>2. Locked'
    BY <1>2, <1>0
       DEF OpenInv, LockStore, Locked, InConstructor, StoreAt, StoreGoto, LeaveStore, StorePC
  <2>3. Positions'
    BY <1>2, <1>0, <1>k
       DEF OpenInv, LockStore, Locked, InConstructor, Positions, Found, Created, Current,
           Recovered, StoreAt, StoreGoto, LeaveStore, StorePC
  <2>4. Log'
    BY <1>2, <1>0, <1>k
       DEF OpenInv, LockStore, Locked, InConstructor, Log, SomeOpen, StoreAt, StoreGoto,
           LeaveStore, StorePC
  <2>5. Rows'
    BY <1>2, <1>0, <1>k
       DEF OpenInv, LockStore, Locked, InConstructor, Log, Rows, SomeOpen, Current, Recovered,
           StoreAt, StoreGoto, LeaveStore, StorePC
  <2> QED
    BY <2>1, <2>2, <2>3, <2>4, <2>5 DEF OpenInv
<1>3. ASSUME NEW p \in Daemon, InspectFiles(p) PROVE OpenInv'
  <2>1. StoreTypeOK'
    BY <1>3, <1>0, <1>k, InFile
       DEF InspectFiles, StoreTypeOK, StorePC, StoreAt, StoreGoto, LeaveStore
  <2>2. Locked'
    BY <1>3, <1>0
       DEF OpenInv, InspectFiles, Locked, InConstructor, StoreAt, StoreGoto, LeaveStore, StorePC
  <2>3. Positions'
    BY <1>3, <1>0, <1>k, <1>f
       DEF OpenInv, InspectFiles, Locked, InConstructor, Positions, Found, Created, Current,
           Recovered, StoreAt, StoreGoto, LeaveStore, StorePC
  <2>4. Log'
    BY <1>3, <1>0, <1>k, <1>f
       DEF OpenInv, InspectFiles, Locked, InConstructor, Log, SomeOpen, StoreAt, StoreGoto,
           LeaveStore, StorePC
  <2>5. Rows'
    BY <1>3, <1>0, <1>k, <1>f
       DEF OpenInv, InspectFiles, Locked, InConstructor, Log, Rows, SomeOpen, Current,
           Recovered, StoreAt, StoreGoto, LeaveStore, StorePC
  <2> QED
    BY <2>1, <2>2, <2>3, <2>4, <2>5 DEF OpenInv
<1>4. ASSUME NEW p \in Daemon, SyncCreated(p) PROVE OpenInv'
  <2>1. StoreTypeOK'
    BY <1>4, <1>0, <1>k, InFile
       DEF SyncCreated, StoreTypeOK, StorePC, StoreAt, StoreGoto, LeaveStore
  <2>2. Locked'
    BY <1>4, <1>0
       DEF OpenInv, SyncCreated, Locked, InConstructor, StoreAt, StoreGoto, LeaveStore, StorePC
  <2>3. Positions'
    BY <1>4, <1>0, <1>k
       DEF OpenInv, SyncCreated, Locked, InConstructor, Positions, Found, Created, Current,
           Recovered, StoreAt, StoreGoto, LeaveStore, StorePC
  <2>4. Log'
    BY <1>4, <1>0, <1>k
       DEF OpenInv, SyncCreated, Locked, InConstructor, Log, SomeOpen, StoreAt, StoreGoto,
           LeaveStore, StorePC
  <2>5. Rows'
    BY <1>4, <1>0, <1>k
       DEF OpenInv, SyncCreated, Locked, InConstructor, Log, Rows, SomeOpen, Current, Recovered,
           StoreAt, StoreGoto, LeaveStore, StorePC
  <2> QED
    BY <2>1, <2>2, <2>3, <2>4, <2>5 DEF OpenInv
<1>5. ASSUME NEW p \in Daemon, CheckVersion(p) PROVE OpenInv'
  <2>1. StoreTypeOK'
    BY <1>5, <1>0, <1>k, InFile
       DEF CheckVersion, StoreTypeOK, StorePC, StoreAt, StoreGoto, LeaveStore
  <2>2. Locked'
    BY <1>5, <1>0
       DEF OpenInv, CheckVersion, Locked, InConstructor, StoreAt, StoreGoto, LeaveStore, StorePC
  <2>3. Positions'
    BY <1>5, <1>0, <1>k
       DEF OpenInv, CheckVersion, Acceptable, Locked, InConstructor, Positions, Found, Created,
           Current, Recovered, StoreAt, StoreGoto, LeaveStore, StorePC
  <2>4. Log'
    BY <1>5, <1>0, <1>k
       DEF OpenInv, CheckVersion, Locked, InConstructor, Log, SomeOpen, StoreAt, StoreGoto,
           LeaveStore, StorePC
  <2>5. Rows'
    BY <1>5, <1>0, <1>k
       DEF OpenInv, CheckVersion, Locked, InConstructor, Log, Rows, SomeOpen, Current,
           Recovered, StoreAt, StoreGoto, LeaveStore, StorePC
  <2> QED
    BY <2>1, <2>2, <2>3, <2>4, <2>5 DEF OpenInv
<1>6. ASSUME NEW p \in Daemon, EnterWal(p) PROVE OpenInv'
  <2>1. StoreTypeOK'
    BY <1>6, <1>0, <1>k, InFile
       DEF EnterWal, StoreTypeOK, StorePC, StoreAt, StoreGoto, LeaveStore
  <2>2. Locked'
    BY <1>6, <1>0
       DEF OpenInv, EnterWal, Locked, InConstructor, StoreAt, StoreGoto, LeaveStore, StorePC
  <2>3. Positions'
    BY <1>6, <1>0, <1>k, <1>f
       DEF OpenInv, EnterWal, Locked, InConstructor, Positions, Found, Created, Current,
           Recovered, StoreAt, StoreGoto, LeaveStore, StorePC
  <2>4. Log'
    BY <1>6, <1>0, <1>k, <1>f
       DEF OpenInv, EnterWal, Locked, InConstructor, Positions, Found, Created, Log, SomeOpen,
           StoreAt, StoreGoto, LeaveStore, StorePC
  <2>5. Rows'
    BY <1>6, <1>0, <1>k, <1>f
       DEF OpenInv, EnterWal, Locked, InConstructor, Positions, Found, Created, Log, Rows,
           SomeOpen, Current, Recovered, StoreAt, StoreGoto, LeaveStore, StorePC
  <2> QED
    BY <2>1, <2>2, <2>3, <2>4, <2>5 DEF OpenInv
<1>7. ASSUME NEW p \in Daemon, Migrate(p) PROVE OpenInv'
  <2>0. Current.kind = "database" /\ Current.rows = acked
    BY <1>7, <1>0, <1>k, <1>f, <1>c
       DEF OpenInv, Migrate, Positions, Found, Created, Rows, StoreAt
  <2>w. wal' \in File /\ wal'.kind = "database" /\ Recognised(wal') /\ wal'.rows = acked
    <3>1. wal' = Ours(VERSION, acked) /\ acked \in 0 .. MaxRows /\ VERSION \in 1 .. VERSION
            /\ VERSION \in 1 .. Newer
      BY <1>7, <1>0, <2>0 DEF Migrate, VERSION, Newer
    <3> QED
      BY <3>1, InFile, FileFacts
  <2>p. store_pc' = [store_pc EXCEPT ![p] = "committed"] /\ store_pc[p] = "migrate"
        /\ UNCHANGED <<main, unsynced, store_lock, existing, acked>>
    BY <1>7 DEF Migrate, StoreAt, StoreGoto
  <2>1. StoreTypeOK'
    BY <2>w, <2>p, <1>0, <1>k, InFile DEF StoreTypeOK, StorePC, StoreAt
  <2>2. Locked'
    BY <2>p, <1>0 DEF OpenInv, Locked, InConstructor, StoreAt, StorePC
  <2>3. Positions'
    BY <2>w, <2>p, <1>0, <1>k, <1>f
       DEF OpenInv, Locked, InConstructor, Positions, Found, Created, Current, Recovered,
           StoreAt, StorePC
  <2>4. Log'
    BY <2>w, <2>p, <1>0, <1>k, <1>f
       DEF OpenInv, Locked, InConstructor, Positions, Found, Created, Log, SomeOpen, StoreAt,
           StorePC
  <2>5. Rows'
    BY <2>w, <2>p, <1>0, <1>k, <1>f
       DEF OpenInv, Locked, InConstructor, Positions, Found, Created, Log, Rows, SomeOpen,
           Current, Recovered, StoreAt, StorePC
  <2> QED
    BY <2>1, <2>2, <2>3, <2>4, <2>5 DEF OpenInv
<1>8. ASSUME NEW p \in Daemon, ReturnStore(p) PROVE OpenInv'
  <2>1. StoreTypeOK'
    BY <1>8, <1>0, <1>k, InFile
       DEF ReturnStore, StoreTypeOK, StorePC, StoreAt, StoreGoto, LeaveStore
  <2>2. Locked'
    BY <1>8, <1>0
       DEF OpenInv, ReturnStore, Locked, InConstructor, StoreAt, StoreGoto, LeaveStore, StorePC
  <2>3. Positions'
    BY <1>8, <1>0, <1>k
       DEF OpenInv, ReturnStore, Locked, InConstructor, Positions, Found, Created, Current,
           Recovered, StoreAt, StoreGoto, LeaveStore, StorePC
  <2>4. Log'
    BY <1>8, <1>0, <1>k
       DEF OpenInv, ReturnStore, Locked, InConstructor, Log, SomeOpen, StoreAt, StoreGoto,
           LeaveStore, StorePC
  <2>5. Rows'
    BY <1>8, <1>0, <1>k
       DEF OpenInv, ReturnStore, Locked, InConstructor, Log, Rows, SomeOpen, Current, Recovered,
           StoreAt, StoreGoto, LeaveStore, StorePC
  <2> QED
    BY <2>1, <2>2, <2>3, <2>4, <2>5 DEF OpenInv
<1>9. ASSUME NEW p \in Daemon, CommitRow(p) PROVE OpenInv'
  <2>0. wal.kind = "database" /\ Current = wal /\ Recognised(wal) /\ wal.rows = acked
        /\ "wal" \notin unsynced /\ acked < MaxRows /\ SomeOpen
    BY <1>9, <1>0, <1>c DEF OpenInv, CommitRow, Log, Rows, SomeOpen, StoreAt
  <2>w. wal' \in File /\ wal'.kind = "database" /\ Recognised(wal') /\ wal'.rows = acked + 1
    <3>1. wal' = [wal EXCEPT !.rows = @ + 1]
      BY <1>9, <2>0 DEF CommitRow
    <3> QED
      BY <3>1, <2>0, <1>0, RowAdded
  <2>p. acked' = acked + 1 /\ UNCHANGED <<main, unsynced, store_lock, store_pc, existing>>
    BY <1>9 DEF CommitRow
  <2>1. StoreTypeOK'
    BY <2>0, <2>w, <2>p, <1>0, <1>k, InFile DEF StoreTypeOK, StorePC, StoreAt
  <2>2. Locked'
    BY <2>p, <1>0 DEF OpenInv, Locked, InConstructor, StoreAt, StorePC
  <2>3. Positions'
    BY <2>0, <2>w, <2>p, <1>0, <1>k, <1>f
       DEF OpenInv, Locked, InConstructor, Positions, Found, Created, Current, Recovered,
           StoreAt, StorePC
  <2>4. Log'
    BY <2>0, <2>w, <2>p, <1>0, <1>k, <1>f
       DEF OpenInv, Locked, InConstructor, Log, SomeOpen, StoreAt, StorePC
  <2>5. Rows'
    BY <2>0, <2>w, <2>p, <1>0, <1>k, <1>f
       DEF OpenInv, Locked, InConstructor, Log, Rows, SomeOpen, Current, Recovered, StoreAt,
           StorePC
  <2> QED
    BY <2>1, <2>2, <2>3, <2>4, <2>5 DEF OpenInv
<1>10. ASSUME NEW p \in Daemon, CloseStore(p) PROVE OpenInv'
  <2>p. /\ store_pc' = [store_pc EXCEPT ![p] = "closed"] /\ store_pc[p] \in {"open", "closing"}
        /\ UNCHANGED <<unsynced, store_lock, existing, acked>>
    BY <1>10 DEF CloseStore, StoreAt, StoreGoto
  <2>w. \/ UNCHANGED <<main, wal>>
        \/ /\ main' = Current /\ wal' = Missing
           /\ \A q \in Daemon : store_pc'[q] \notin {"checked", "journal", "migrate",
                                                     "committed", "open", "closing"}
    BY <1>10, <1>0, <2>p DEF CloseStore, Connected
  <2>c. Current' = Current /\ (main.kind = "database" => main'.kind = "database")
    BY <1>0, <1>c, <1>f, <2>w DEF Current, Recovered
  <2>1. StoreTypeOK'
    BY <2>w, <2>p, <1>0, <1>c, <1>f DEF StoreTypeOK, StorePC
  <2>2. Locked'
    BY <2>p, <1>0 DEF OpenInv, Locked, InConstructor, StoreAt, StorePC
  <2>3. Positions'
    <3> SUFFICES ASSUME NEW q \in Daemon PROVE (IF existing[q] THEN Found(q) ELSE Created(q))'
      BY DEF Positions
    <3>1. CASE q = p
      BY <1>0, <2>p, <3>1 DEF OpenInv, Locked, InConstructor, Found, Created, StoreAt
    <3>2. CASE q # p /\ UNCHANGED <<main, wal>>
      BY <1>0, <2>p, <3>2 DEF OpenInv, Positions, Found, Created, StoreAt, Current
    <3>3. CASE q # p /\ ~UNCHANGED <<main, wal>>
      <4>1. store_pc'[q] = store_pc[q] /\ existing'[q] = existing[q]
        BY <1>0, <2>p, <3>3
      <4>2. CASE existing[q]
        BY <2>c, <3>3, <4>1, <4>2 DEF OpenInv, Positions, Found
      <4>3. CASE ~existing[q]
        <5>1. main = Short /\ wal = Missing => UNCHANGED <<main, wal>>
          BY <1>c, <1>f, <2>w
        <5> QED
          BY <2>w, <3>3, <4>1, <4>3, <5>1 DEF OpenInv, Positions, Created, StoreAt
      <4> QED
        BY <4>1, <4>2, <4>3
    <3> QED
      BY <3>1, <3>2, <3>3
  <2>4. Log'
    BY <2>w, <2>p, <2>c, <1>0, <1>k, <1>f, <1>c
       DEF OpenInv, Log, SomeOpen, StoreAt, StorePC
  <2>5. Rows'
    <3>1. SomeOpen' => SomeOpen
      BY <1>0, <2>p DEF SomeOpen, StoreAt
    <3>2. main' = main \/ main' = Current
      BY <2>w
    <3> QED
      BY <2>c, <2>p, <3>1, <3>2 DEF OpenInv, Rows
  <2> QED
    BY <2>1, <2>2, <2>3, <2>4, <2>5 DEF OpenInv
<1>11. ASSUME NEW p \in Daemon, Abandon(p) PROVE OpenInv'
  <2>1. StoreTypeOK'
    BY <1>11, <1>0, <1>k, InFile
       DEF Abandon, StoreTypeOK, StorePC, StoreAt, StoreGoto, LeaveStore
  <2>2. Locked'
    BY <1>11, <1>0
       DEF OpenInv, Abandon, Locked, InConstructor, StoreAt, StoreGoto, LeaveStore, StorePC
  <2>3. Positions'
    BY <1>11, <1>0, <1>k
       DEF OpenInv, Abandon, Locked, InConstructor, Positions, Found, Created, Current,
           Recovered, StoreAt, StoreGoto, LeaveStore, StorePC
  <2>4. Log'
    BY <1>11, <1>0, <1>k
       DEF OpenInv, Abandon, Locked, InConstructor, Log, SomeOpen, StoreAt, StoreGoto,
           LeaveStore, StorePC
  <2>5. Rows'
    BY <1>11, <1>0, <1>k
       DEF OpenInv, Abandon, Locked, InConstructor, Log, Rows, SomeOpen, Current, Recovered,
           StoreAt, StoreGoto, LeaveStore, StorePC
  <2> QED
    BY <2>1, <2>2, <2>3, <2>4, <2>5 DEF OpenInv
<1>12. ASSUME Checkpoint PROVE OpenInv'
  <2>1. StoreTypeOK'
    BY <1>12, <1>0, <1>k, InFile DEF Checkpoint, StoreTypeOK, StorePC, MainWithout, WalWithout
  <2>2. Locked'
    BY <1>12, <1>0 DEF OpenInv, Checkpoint, Locked, InConstructor, StoreAt
  <2>3. Positions'
    BY <1>12, <1>0, <1>k
       DEF OpenInv, Checkpoint, Locked, InConstructor, Positions, Found, Created, Current,
           Recovered, StoreAt, Connected
  <2>4. Log'
    BY <1>12, <1>0, <1>k
       DEF OpenInv, Checkpoint, Locked, InConstructor, Log, SomeOpen, StoreAt, MainWithout,
           WalWithout
  <2>5. Rows'
    BY <1>12, <1>0, <1>k
       DEF OpenInv, Checkpoint, Locked, InConstructor, Log, Rows, SomeOpen, Current, Recovered,
           StoreAt, MainWithout, WalWithout
  <2> QED
    BY <2>1, <2>2, <2>3, <2>4, <2>5 DEF OpenInv
<1>13. ASSUME StorePowerLoss PROVE OpenInv'
  <2>1. StoreTypeOK'
    BY <1>13, <1>0, <1>k, InFile
       DEF StorePowerLoss, StoreTypeOK, StorePC, MainWithout, WalWithout
  <2>2. Locked'
    BY <1>13, <1>0 DEF OpenInv, StorePowerLoss, Locked, InConstructor, StoreAt
  <2>3. Positions'
    BY <1>13, <1>0, <1>k, <1>f
       DEF OpenInv, StorePowerLoss, Locked, InConstructor, Positions, Found, Created, Current,
           Recovered, StoreAt, Connected
  <2>4. Log'
    BY <1>13, <1>0, <1>k, <1>f
       DEF OpenInv, StorePowerLoss, Locked, InConstructor, Log, SomeOpen, StoreAt, MainWithout,
           WalWithout
  <2>5. Rows'
    BY <1>13, <1>0, <1>k, <1>f
       DEF OpenInv, StorePowerLoss, Locked, InConstructor, Log, Rows, SomeOpen, Current,
           Recovered, StoreAt, MainWithout, WalWithout
  <2> QED
    BY <2>1, <2>2, <2>3, <2>4, <2>5 DEF OpenInv
<1>14. ASSUME NEW p \in Daemon, QuickCheck(p) PROVE OpenInv'
  <2>p. /\ store_pc' = [store_pc EXCEPT ![p] = "checked"] /\ store_pc[p] = "check"
        /\ UNCHANGED <<main, store_lock, existing, acked>>
    BY <1>14 DEF QuickCheck, StoreAt, StoreGoto
  <2>w. \/ UNCHANGED <<wal, unsynced>>
        \/ /\ wal = Missing /\ main.kind = "database" /\ existing[p] /\ store_lock = p
           /\ wal' = Short /\ unsynced' = unsynced \union {"wal"}
    BY <1>14, <1>0, <1>f, <2>p
       DEF QuickCheck, OpenInv, Positions, Created, Locked, InConstructor
  <2>c. Current' = Current
    BY <1>f, <2>p, <2>w DEF Current, Recovered
  <2>o. SomeOpen' => SomeOpen /\ wal.kind = "database"
    BY <1>0, <2>p DEF OpenInv, Log, SomeOpen, StoreAt
  <2>1. StoreTypeOK'
    BY <2>w, <2>p, <1>0, <1>f DEF StoreTypeOK, StorePC
  <2>2. Locked'
    BY <2>p, <1>0 DEF OpenInv, Locked, InConstructor, StoreAt, StorePC
  <2>3. Positions'
    <3> SUFFICES ASSUME NEW q \in Daemon PROVE (IF existing[q] THEN Found(q) ELSE Created(q))'
      BY DEF Positions
    <3>1. CASE existing[q]
      BY <1>0, <2>p, <2>c, <3>1 DEF OpenInv, Positions, Found
    <3>2. CASE ~existing[q]
      <4>1. UNCHANGED <<wal, unsynced>>
        BY <1>0, <2>w, <3>2 DEF OpenInv, Locked
      <4> QED
        BY <1>0, <2>p, <3>2, <4>1 DEF OpenInv, Positions, Created, StoreAt
    <3> QED
      BY <2>p, <3>1, <3>2
  <2>4. Log'
    BY <2>w, <2>p, <2>o, <1>0, <1>f DEF OpenInv, Log, StorePC
  <2>5. Rows'
    <3>1. CASE UNCHANGED <<wal, unsynced>>
      BY <2>c, <2>p, <2>o, <3>1 DEF OpenInv, Rows
    <3>2. CASE wal = Missing
      <4>1. Current = main
        BY <1>c, <1>f, <3>2
      <4> QED
        BY <2>c, <2>p, <2>o, <4>1 DEF OpenInv, Rows
    <3> QED
      BY <2>w, <3>1, <3>2
  <2> QED
    BY <2>1, <2>2, <2>3, <2>4, <2>5 DEF OpenInv
<1>15. ASSUME NEW p \in Daemon, Throw(p) PROVE OpenInv'
  <2>1. StoreTypeOK'
    BY <1>15, <1>0 DEF Throw, StoreTypeOK, StorePC, StoreGoto, LeaveStore
  <2>2. Locked'
    BY <1>15, <1>0
       DEF OpenInv, Throw, Locked, InConstructor, StoreAt, StoreGoto, LeaveStore, StorePC
  <2>3. Positions'
    BY <1>15, <1>0, <1>k
       DEF OpenInv, Throw, Locked, InConstructor, Positions, Found, Created, Current,
           StoreAt, StoreGoto, LeaveStore, StorePC
  <2>4. Log'
    BY <1>15, <1>0, <1>k
       DEF OpenInv, Throw, Log, SomeOpen, StoreAt, StoreGoto, LeaveStore, StorePC
  <2>5. Rows'
    BY <1>15, <1>0, <1>k
       DEF OpenInv, Throw, Rows, SomeOpen, Current, StoreAt, StoreGoto, LeaveStore, StorePC
  <2> QED
    BY <2>1, <2>2, <2>3, <2>4, <2>5 DEF OpenInv
<1>16. ASSUME UNCHANGED storeVars PROVE OpenInv'
  BY <1>16
     DEF OpenInv, storeVars, StoreTypeOK, Locked, InConstructor, Positions, Found, Created, Log,
         Rows, SomeOpen, StoreAt, Current, Recovered
<1> QED
  BY <1>1, <1>2, <1>3, <1>4, <1>5, <1>6, <1>7, <1>8, <1>9, <1>10, <1>11, <1>12, <1>13, <1>14,
     <1>15, <1>16 DEF StoreNext, OpenStore
-----------------------------------------------------------------------------
(* The constructor, the open stores and a power loss keep the invariant.   *)
THEOREM OpenInvariant == StoreSpec => []OpenInv
  BY InitOpen, OpenPreserved, PTL DEF StoreSpec

(* No reported trust record is lost by a start, a kill or a power loss,    *)
(* and an established database stays established.                          *)
THEOREM TrustSurvives == StoreSpec => []CommittedTrustSurvives
<1>1. OpenInv => CommittedTrustSurvives
  <2> SUFFICES ASSUME OpenInv, acked > 0 \/ SomeOpen, NEW lost \in SUBSET unsynced
               PROVE  LET db == Recovered(MainWithout(lost), WalWithout(lost))
                      IN Recognised(db) /\ db.rows >= acked
    BY DEF CommittedTrustSurvives, SomeOpen
  <2>1. /\ main \in File /\ wal \in File /\ acked \in Nat
        /\ ~Recognised(Missing) /\ ~Recognised(Short)
        /\ Missing.kind # "database" /\ Short.kind # "database"
    BY InFile, FileFacts, FileKinds, StoreAssumption DEF OpenInv, StoreTypeOK
  <2>2. Recognised(Current) /\ Current.rows = acked
    BY DEF OpenInv, Rows
  <2>3. "main" \notin lost
    BY <2>1, <2>2 DEF OpenInv, Log, Current, Recovered
  <2>4. CASE "wal" \in lost
    BY <2>1, <2>3, <2>4 DEF OpenInv, Rows, Recovered, MainWithout, WalWithout
  <2>5. CASE "wal" \notin lost
    BY <2>1, <2>2, <2>3, <2>5 DEF Current, Recovered, MainWithout, WalWithout
  <2> QED
    BY <2>4, <2>5
<1> QED
  BY <1>1, OpenInvariant, PTL

(* What SQLite reads of a database that is not of our schema stays as it   *)
(* is, except in the constructor that created it: neither a rejecting      *)
(* constructor nor the handle it closes changes it.                        *)
THEOREM UnrecognisedKept == StoreSpec => UnrecognisedIsPreserved
<1> DEFINE Preserved ==
      \/ main = Missing \/ Recognised(Current)
      \/ \E p \in Daemon : store_lock = p /\ ~existing[p]
      \/ Current' = Current
      \/ "main" \in unsynced /\ Current' = Missing
<1>1. OpenInv /\ [StoreNext]_storeVars => [Preserved]_storeVars
  <2> SUFFICES ASSUME OpenInv, StoreNext, ~Recognised(Current), main # Missing,
                      \A p \in Daemon : store_lock = p => existing[p]
               PROVE  Current' = Current \/ ("main" \in unsynced /\ Current' = Missing)
    BY DEF storeVars
  <2>0. /\ main \in File /\ wal \in File
        /\ Missing.kind # "database" /\ Short.kind # "database"
        /\ Current = IF wal.kind = "database" THEN wal ELSE main
    BY FileFacts DEF OpenInv, StoreTypeOK, Log, Current, Recovered
  <2>1. \A p \in Daemon : store_pc[p] \notin {"committed", "open"}
    BY <2>0 DEF OpenInv, Log
  <2>2. \A p \in Daemon : store_pc[p] \notin {"journal", "migrate"}
    BY DEF OpenInv, Locked, InConstructor, Positions, Found
  <2>3. UNCHANGED <<main, wal>> => Current' = Current
    BY DEF Current
  <2>4. ASSUME NEW p \in Daemon, OpenStore(p) PROVE Current' = Current
    <3>1. CASE QuickCheck(p)
      BY <2>0, <3>1 DEF QuickCheck, Current, Recovered
    <3>2. CASE ~QuickCheck(p)
      BY <2>1, <2>2, <2>3, <2>4, <3>2
         DEF OpenStore, OpenStateDirectory, LockStore, InspectFiles, SyncCreated, CheckVersion,
             EnterWal, Migrate, ReturnStore, Throw, StoreAt
    <3> QED
      BY <3>1, <3>2
  <2>5. ASSUME NEW p \in Daemon, CloseStore(p) PROVE Current' = Current
    BY <2>0, <2>3, <2>5 DEF CloseStore, Current, Recovered
  <2>6. ASSUME NEW p \in Daemon, CommitRow(p) \/ Abandon(p) PROVE Current' = Current
    BY <2>1, <2>3, <2>6 DEF CommitRow, Abandon, StoreAt
  <2>7. ASSUME StorePowerLoss
        PROVE  Current' = Current \/ ("main" \in unsynced /\ Current' = Missing)
    <3>1. PICK lost \in SUBSET unsynced : main' = MainWithout(lost) /\ wal' = WalWithout(lost)
      BY <2>7 DEF StorePowerLoss
    <3>2. CASE "main" \in lost
      BY <2>0, <3>1, <3>2 DEF MainWithout, Current, Recovered
    <3>3. CASE "main" \notin lost /\ "wal" \in lost
      BY <2>0, <3>1, <3>3 DEF OpenInv, Log, Rows, MainWithout, WalWithout, Current, Recovered
    <3>4. CASE "main" \notin lost /\ "wal" \notin lost
      BY <2>3, <3>1, <3>4 DEF MainWithout, WalWithout
    <3> QED
      BY <3>2, <3>3, <3>4
  <2>8. ~Checkpoint
    BY <2>1 DEF Checkpoint, StoreAt
  <2> QED
    BY <2>4, <2>5, <2>6, <2>7, <2>8 DEF StoreNext
<1> QED
  BY <1>1, OpenInvariant, PTL DEF StoreSpec, UnrecognisedIsPreserved
-----------------------------------------------------------------------------
(* main is the composition of the two: each step of a starting, serving or *)
(* ending process is a step of load_or_create, of the trust store or of    *)
(* both, so that each keeps what it promises.                              *)
THEOREM StartImplements == StartSpec => Spec /\ StoreSpec
<1>1. StartInit => Init /\ StoreInit
  BY DEF StartInit
<1>2. [StartNext]_startVars => [Next]_vars /\ [StoreNext]_storeVars
  <2>1. ASSUME NEW p \in Process, IdentityStep(p) PROVE Next /\ UNCHANGED storeVars
    BY <2>1 DEF IdentityStep, Next
  <2>2. ASSUME NEW p \in Process, StoreStep(p) PROVE StoreNext /\ UNCHANGED vars
    BY <2>2, OneSetOfProcesses DEF StoreStep, StoreNext
  <2>3. ASSUME NEW p \in Process, Serve(p) PROVE StoreNext /\ UNCHANGED vars
    BY <2>3, OneSetOfProcesses DEF Serve, StoreNext
  <2>4. ASSUME NEW p \in Process, Exit(p) PROVE StoreNext /\ UNCHANGED vars
    BY <2>4, OneSetOfProcesses DEF Exit, StoreNext
  <2>5. ASSUME NEW p \in Process, Die(p) PROVE [Next]_vars /\ [StoreNext]_storeVars
    BY <2>5, OneSetOfProcesses DEF Die, Next, StoreNext
  <2>6. CASE Checkpoint /\ UNCHANGED <<vars, stage>>
    BY <2>6 DEF StoreNext
  <2>7. CASE LosePower
    BY <2>7 DEF LosePower, Next, StoreNext
  <2>8. CASE UNCHANGED startVars
    BY <2>8 DEF startVars
  <2> QED
    BY <2>1, <2>2, <2>3, <2>4, <2>5, <2>6, <2>7, <2>8 DEF StartNext
<1> QED
  BY <1>1, <1>2, PTL DEF StartSpec, Spec, StoreSpec

(* Processes that start together, die at any step of main or lose power    *)
(* neither change the identity of the installation nor lose trust records. *)
THEOREM StartIsSafe ==
  StartSpec => /\ [](IdentityIsUnique /\ MigrationKeepsUuid /\ KeysHaveMarker)
               /\ []CommittedTrustSurvives
               /\ UnrecognisedIsPreserved
  BY StartImplements, IdentityUnique, MigrationSafe, KeysMarked, TrustSurvives,
     UnrecognisedKept, PTL
=============================================================================
