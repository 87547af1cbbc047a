------------------------------ MODULE Doctrine ------------------------------
(***************************************************************************)
(* Where a solving process takes its doctrine from: policies/regime.py's   *)
(* two caches over intent/intent.py's verified load.  An artifact is a     *)
(* file anyone may edit; only stamp() writes its fingerprint, and a load   *)
(* believes what the fingerprint covers: everything but the fingerprint    *)
(* itself and the stamp's time.                                            *)
(*                                                                         *)
(* The fingerprint of a content is the content (md5 without collisions).   *)
(***************************************************************************)
EXTENDS Naturals

CONSTANTS Packs,        \* the sector packs a caller may name
          Kernel,       \* the kernel's own artifact
          Bodies,       \* what an artifact may declare
          NoFile,
          MaxEdits      \* how often the files change
Paths == Packs \cup {Kernel}

VARIABLES files,        \* path -> [body, version, fingerprint] or NoFile
          loaded,       \* path -> what this process holds of it, or NoFile
          solvedOn,     \* the doctrine the last call was answered with
          stamped,      \* every content an author stamped (history)
          edits         \* how often the files changed (history)
doctrineVars == <<files, loaded, solvedOn, stamped, edits>>

Contents == Bodies \X Nat
Documents == [body : Bodies, version : Nat, fingerprint : Contents \cup {<<>>}]
ASSUME NoFileAssumption == NoFile \notin Documents

FourKeysOnly(doc) == <<doc.body>>
Canonical(doc) == <<doc.body, doc.version>>
Fresh(body) == LET doc == [body |-> body, version |-> 1, fingerprint |-> <<>>]
               IN  [doc EXCEPT !.fingerprint = Canonical(doc)]
Content(doc) == <<doc.body, doc.version>>

DoctrineInit ==
  /\ \E b \in Bodies : files = [p \in Paths |-> IF p = Kernel THEN Fresh(b) ELSE NoFile]
  /\ loaded = [p \in Paths |-> NoFile]
  /\ solvedOn = NoFile
  /\ stamped = {Content(files[Kernel])}
  /\ edits = 0

(* The authors: a file written, edited or removed by hand, and stamp().    *)
Touched == edits < MaxEdits /\ edits' = edits + 1 /\ UNCHANGED <<loaded, solvedOn>>
Write(path, body, version) ==
  /\ Touched
  /\ files' = [files EXCEPT ![path] =
                 [body |-> body, version |-> version,
                  fingerprint |-> IF @ = NoFile THEN <<>> ELSE @.fingerprint]]
  /\ UNCHANGED stamped
RemoveFile(path) ==
  /\ Touched /\ path # Kernel /\ files[path] # NoFile
  /\ files' = [files EXCEPT ![path] = NoFile]
  /\ UNCHANGED stamped
Stamp(path) ==
  /\ Touched /\ files[path] # NoFile
  /\ files' = [files EXCEPT ![path].fingerprint = Canonical(files[path])]
  /\ stamped' = stamped \cup {Content(files[path])}

(* A pack without an artifact of its own solves on the kernel's; what was  *)
(* loaded once is kept for the life of the process.                        *)
PathFor(pack) == IF pack = Kernel \/ files[pack] = NoFile THEN Kernel ELSE pack
IsVerified(doc) == doc.fingerprint = Canonical(doc)
Resolve(pack) ==
  LET path == PathFor(pack) IN
  /\ UNCHANGED <<files, stamped, edits>>
  /\ \/ /\ loaded[path] # NoFile
        /\ solvedOn' = loaded[path]
        /\ UNCHANGED loaded
     \/ /\ loaded[path] = NoFile /\ IsVerified(files[path])
        /\ loaded' = [loaded EXCEPT ![path] = files[path]]
        /\ solvedOn' = files[path]
     \/ /\ loaded[path] = NoFile /\ ~IsVerified(files[path])   \* the call fails
        /\ solvedOn' = NoFile
        /\ UNCHANGED loaded
Restart ==
  /\ loaded' = [p \in Paths |-> NoFile] /\ solvedOn' = NoFile
  /\ UNCHANGED <<files, stamped, edits>>

DoctrineNext ==
  \/ \E p \in Paths, b \in Bodies, v \in 1..2 : Write(p, b, v)
  \/ \E p \in Paths : Stamp(p) \/ RemoveFile(p) \/ Resolve(p)
  \/ Restart
DoctrineSpec == DoctrineInit /\ [][DoctrineNext]_doctrineVars

-----------------------------------------------------------------------------
(* No call is answered with a doctrine, its version included, that nobody  *)
(* stamped: whatever hand edited the file since, and in whatever order the *)
(* edits, the stamps, the loads and the restarts came.                     *)
SolvesOnStampedDoctrine == solvedOn # NoFile => Content(solvedOn) \in stamped
=============================================================================
