----------------------------- MODULE ObjectStore -----------------------------
(***************************************************************************)
(* The object storage: internal/storage/secure.go over storage.go, with    *)
(* the scanner of scanner.go and the life of the process in cmd/api.       *)
(*                                                                         *)
(* An upload is quarantined, scanned, sealed and written beside its final  *)
(* name, then renamed.  What it stores is counted in chunks.  A sealed     *)
(* object is a header, one authenticated frame per chunk and an end mark;  *)
(* the medium may lose the tail of any stored file.                        *)
(*                                                                         *)
(* Keys of objects are random and never used twice: an object is its       *)
(* upload.  The scanner is external: it may fail to decide, and it is not  *)
(* mistaken.                                                               *)
(***************************************************************************)
EXTENDS Naturals

CONSTANTS
    Objects,
    MaxChunks, \* MAX_UPLOAD_MB, in chunks
    Configs    \* what the environment may say when the process starts

ASSUME StoreAssumption ==
    /\ MaxChunks \in Nat
    /\ Configs \subseteq [production : BOOLEAN, key : {"none", "key"},
                          scanner : BOOLEAN, legacy : BOOLEAN]

VARIABLES
    process, \* "down", "up", or "closing" once the store was closed
    config,  \* what the process was started with; its key is spoiled by Close
    files,   \* [Objects -> NoFile or what is stored under the key]
    temps,   \* objects that have a temporary file in the root
    upload   \* [Objects -> where its upload is]

storeVars == <<process, config, files, temps, upload>>

NoFile == [state |-> "absent"]
Deleted == [state |-> "deleted"]
Unborn == [at |-> "unborn"]
Over == [at |-> "over"]

\* A stored file.  "frames" of its "size" chunks are left; "end" tells where it
\* ends: as written, between two fields, inside one, or inside the header.
File(n, clean, key) ==
    [state |-> "stored", size |-> n, frames |-> n, end |-> "whole", key |-> key,
     clean |-> clean, production |-> config.production]

Stored(o) == files[o].state = "stored"

\* config.Load: production needs a key and the scanner.
Loadable(c) == c.production => c.key = "key" /\ c.scanner

StoreInit ==
    /\ process = "down"
    /\ config \in {c \in Configs : Loadable(c)}
    /\ files = [o \in Objects |-> NoFile]
    /\ temps = {}
    /\ upload = [o \in Objects |-> Unborn]

Stage(o, at) == upload' = [upload EXCEPT ![o].at = at]
Finished(o) == upload' = [upload EXCEPT ![o] = Over]

-----------------------------------------------------------------------------
(* SecureObjectStorage.Put *)

\* Mutant: the quarantine has no limit.
ReceiveUnlimited(o, n, clean) ==
    /\ process = "up"
    /\ upload[o] = Unborn
    /\ upload' = [upload EXCEPT ![o] = [at |-> "quarantined", size |-> n, clean |-> clean]]
    /\ UNCHANGED <<process, config, files, temps>>

\* The quarantine: a source above the limit is refused.
Receive(o, n, clean) ==
    /\ process = "up"
    /\ upload[o] = Unborn
    /\ n <= MaxChunks
    /\ upload' = [upload EXCEPT ![o] = [at |-> "quarantined", size |-> n, clean |-> clean]]
    /\ UNCHANGED <<process, config, files, temps>>

Verdicts(clean) == {IF clean THEN "OK" ELSE "FOUND", "indeterminate"}

\* ClamAVScanner.Scan: only a response that ends in OK is accepted.
Accepted(verdict) == verdict = "OK"

Scan(o) ==
    /\ upload[o].at = "quarantined"
    /\ config.scanner => \E v \in Verdicts(upload[o].clean) : Accepted(v)
    /\ Stage(o, "scanned")
    /\ UNCHANGED <<process, config, files, temps>>

\* encryptStream, with the key as it is now; without a key the file as it came.
Seal(o) ==
    /\ upload[o].at = "scanned"
    /\ upload' = [upload EXCEPT ![o] =
                    [at |-> "sealed",
                     file |-> File(upload[o].size, upload[o].clean, config.key)]]
    /\ UNCHANGED <<process, config, files, temps>>

\* LocalObjectStorage.Put: the temporary file, then its contents and the sync.
CreateTemp(o) ==
    /\ upload[o].at = "sealed"
    /\ temps' = temps \cup {o}
    /\ Stage(o, "writing")
    /\ UNCHANGED <<process, config, files>>

WriteTemp(o) ==
    /\ upload[o].at = "writing"
    /\ Stage(o, "written")
    /\ UNCHANGED <<process, config, files, temps>>

\* Mutant: renamed before the contents are written.
PublishEarly(o) ==
    /\ upload[o].at \in {"writing", "written"}
    /\ files' = [files EXCEPT ![o] = IF upload[o].at = "written" THEN upload[o].file
                                     ELSE [upload[o].file EXCEPT !.frames = 0]]
    /\ temps' = temps \ {o}
    /\ Finished(o)
    /\ UNCHANGED <<process, config>>

\* os.Rename to the key.
Publish(o) ==
    /\ upload[o].at = "written"
    /\ files' = [files EXCEPT ![o] = upload[o].file]
    /\ temps' = temps \ {o}
    /\ Finished(o)
    /\ UNCHANGED <<process, config>>

\* Any error or refusal: the temporary files are removed.
UploadFail(o) ==
    /\ upload[o].at \notin {"unborn", "over"}
    /\ temps' = temps \ {o}
    /\ Finished(o)
    /\ UNCHANGED <<process, config, files>>

Delete(o) ==
    /\ process # "down"
    /\ Stored(o)
    /\ files' = [files EXCEPT ![o] = Deleted]
    /\ UNCHANGED <<process, config, temps, upload>>

-----------------------------------------------------------------------------
(* Open *)

\* The bytes as they are: "text" unless they are sealed.
Raw(f) == [ok |-> TRUE, text |-> f.key = "none", chunks |-> f.frames]
Refused == [ok |-> FALSE, text |-> TRUE, chunks |-> 0]

\* Whether the file begins with the header of the envelope.
Enveloped(f) == f.key # "none" /\ f.end # "headless"

\* Mutant: a frame cut short ends the object.
ReadTornCleanly(f, k, legacy) ==
    IF k = "none" \/ (~Enveloped(f) /\ legacy) THEN Raw(f)
    ELSE IF ~Enveloped(f) \/ (f.key # k /\ f.frames > 0) THEN Refused
    ELSE [ok |-> TRUE, text |-> TRUE, chunks |-> f.frames]

\* What a reader gets from Open and decryptStream.  A frame sealed with another
\* key is an error.  A file that ends where a field was to begin makes ReadFull
\* return EOF, which the pipe hands to the reader as the end of the object.
Read(f, k, legacy) ==
    IF k = "none" \/ (~Enveloped(f) /\ legacy) THEN Raw(f)
    ELSE IF ~Enveloped(f) \/ (f.key # k /\ f.frames > 0) THEN Refused
    ELSE [ok |-> f.end # "torn", text |-> TRUE, chunks |-> f.frames]

-----------------------------------------------------------------------------
(* The process and the medium *)

\* main: the configuration is loaded once.
Start(c) ==
    /\ process = "down"
    /\ Loadable(c)
    /\ process' = "up"
    /\ config' = c
    /\ UNCHANGED <<files, temps, upload>>

\* Close overwrites the key.  Server.Shutdown may have timed out before: then
\* uploads are still under way.
Close ==
    /\ process = "up"
    /\ process' = "closing"
    /\ config' = [config EXCEPT !.key = IF @ = "none" THEN "none" ELSE "spoiled"]
    /\ UNCHANGED <<files, temps, upload>>

\* The process ends, by itself or not; nothing removes its temporary files.
Stop ==
    /\ process # "down"
    /\ process' = "down"
    /\ upload' = [o \in Objects |-> IF upload[o] = Unborn THEN Unborn ELSE Over]
    /\ UNCHANGED <<config, files, temps>>

\* The medium loses the tail of a file: "kept" frames stay, then the cut.
Cut(o, kept, end) ==
    /\ Stored(o)
    /\ files[o].end = "whole"
    /\ kept <= files[o].frames
    /\ end = "headless" => kept = 0
    /\ files' = [files EXCEPT ![o].frames = kept, ![o].end = end]
    /\ UNCHANGED <<process, config, temps, upload>>

UploadStep(o) ==
    \/ \E n \in 0..MaxChunks + 1, clean \in BOOLEAN : Receive(o, n, clean)
    \/ Scan(o) \/ Seal(o) \/ CreateTemp(o) \/ WriteTemp(o) \/ Publish(o)
    \/ UploadFail(o)

StoreStep ==
    \/ \E o \in Objects : UploadStep(o) \/ Delete(o)
    \/ \E o \in Objects, kept \in 0..MaxChunks, end \in {"between", "torn", "headless"} :
          Cut(o, kept, end)

-----------------------------------------------------------------------------
FileSet ==
    [state : {"stored"}, size : 0..MaxChunks, frames : 0..MaxChunks,
     end : {"whole", "between", "torn", "headless"},
     key : {"none", "key", "spoiled"}, clean : BOOLEAN, production : BOOLEAN]

StoreTypeOK ==
    /\ process \in {"down", "up", "closing"}
    /\ config \in [production : BOOLEAN, key : {"none", "key", "spoiled"},
                   scanner : BOOLEAN, legacy : BOOLEAN]
    /\ files \in [Objects -> {NoFile, Deleted} \cup FileSet]
    /\ temps \subseteq Objects
    /\ upload \in [Objects ->
          {Unborn, Over}
          \cup [at : {"quarantined", "scanned"}, size : 0..MaxChunks, clean : BOOLEAN]
          \cup [at : {"sealed", "writing", "written"}, file : FileSet]]

\* docs/storage-security.md: "unscanned content is never committed when scanning
\* is enabled"; README.md: "Production configuration refuses plaintext storage or
\* disabled malware scanning."  Wherever a process stops, what is stored under a
\* key is all of the upload unless the medium lost its tail, and what production
\* stored is clean and sealed.
StoredIsSound ==
    \A o \in Objects : Stored(o) =>
        LET f == files[o]
        IN /\ f.end = "whole" => f.frames = f.size
           /\ f.production => f.clean /\ f.key # "none"

\* docs/storage-security.md: "Reads authenticate every chunk before returning
\* plaintext."  With a key and without the migration switch, a read that ends
\* without an error has returned the whole upload, after any restart with any
\* other configuration in between.  The exception is a file that was cut exactly
\* between two fields of its frames.
CleanReadIsWhole ==
    process = "up" /\ config.key = "key" /\ ~config.legacy =>
        \A o \in Objects : Stored(o) =>
            LET r == Read(files[o], config.key, config.legacy)
            IN r.ok => \/ r.text /\ r.chunks = files[o].size
                       \/ files[o].end = "between"
=============================================================================
