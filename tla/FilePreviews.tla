---------------------------- MODULE FilePreviews ----------------------------
(* Previews of project files: FileService of src/main/files/fileService.ts   *)
(* and the protocol handler of fileProtocol.ts, against other processes that *)
(* write, replace, link and remove the files at any time.                    *)
(*                                                                           *)
(* The functions are synchronous, so one runs at a time, yet another process *)
(* may act between two of its system calls: an action is one such call with  *)
(* what is computed from it.  A token stands for its identity check; the     *)
(* path checks under the project's root, the kinds of content and the texts  *)
(* are left out, and so are requests without a known token (404).            *)
EXTENDS ServiceBounds, Sequences, SequencesExt

CONSTANTS
    MaxFiles,     \* bound: files that are ever at the path; an inode is not used again
    MaxSize,      \* bound: bytes of a file
    MaxTokens,    \* MAX_TOKENS, 128
    TokenTTL,     \* TOKEN_TTL_MS
    MaxClock      \* bound: the time that passes

ASSUME FilePreviewsAssumption ==
    /\ MaxFiles \in Nat \ {0} /\ MaxSize \in Nat /\ MaxTokens \in Nat \ {0}
    /\ TokenTTL \in Nat \ {0} /\ MaxClock \in Nat /\ None \notin Nat

VARIABLES
    disk,        \* the file at the path; 0 when a link is there, or nothing
    size,        \* the size of each file
    files,       \* files made so far
    clock,
    tokens,      \* the map of tokens in the order of insertion
    opening,     \* the function that has seen the path and is about to open it
    answers,     \* the responses whose bodies are being read
    fileCalls

filesVars == <<disk, size, files, clock, tokens, opening, answers, fileCalls>>
world == <<disk, size, files, clock>>

Files  == 1 .. MaxFiles
Sizes  == 0 .. MaxSize
Tokens == [file : Files, until : Nat]

\* A range header: "bytes=first-last" with either number left out, or none.
Number == 0 .. MaxSize + 1
Ranges == {None} \cup [first : Number \cup {None}, last : Number \cup {None}]

FilesTypeOK ==
    /\ disk \in Files \cup {0}
    /\ size \in [Files -> Sizes] /\ files \in Files /\ clock \in 0 .. MaxClock
    /\ tokens \in Seq(Tokens) /\ Len(tokens) <= MaxTokens
    /\ opening \in {None} \cup [for : {"preview", "serve"}, file : Files, seen : Sizes]
    /\ answers \in SUBSET [file : Files, of : Files, size : Sizes, range : Ranges,
                           sent : SUBSET (0 .. MaxSize)]

FilesInit ==
    /\ disk = 1 /\ files = 1 /\ size = [f \in Files |-> MaxSize] /\ clock = 0
    /\ tokens = <<>> /\ opening = None /\ answers = {} /\ fileCalls = 0

-----------------------------------------------------------------------------
(* Other processes: the agent, an editor, a build.                           *)

WriteFile(n) ==
    /\ disk \in Files
    /\ size' = [size EXCEPT ![disk] = n]
    /\ UNCHANGED <<disk, files, clock, tokens, opening, answers, fileCalls>>

ReplaceFile(n) ==
    /\ files < MaxFiles /\ files' = files + 1
    /\ disk' = files' /\ size' = [size EXCEPT ![files'] = n]
    /\ UNCHANGED <<clock, tokens, opening, answers, fileCalls>>

\* The path becomes a symbolic link or is removed.
UnlinkFile ==
    /\ disk' = 0
    /\ UNCHANGED <<size, files, clock, tokens, opening, answers, fileCalls>>

TimePasses ==
    /\ clock < MaxClock /\ clock' = clock + 1
    /\ UNCHANGED <<disk, size, files, tokens, opening, answers, fileCalls>>

-----------------------------------------------------------------------------
(* Tokens.                                                                   *)

\* #expireTokens: the tokens left keep their order.
Unexpired ==
    LET left == {i \in DOMAIN tokens : tokens[i].until > clock}
        place(i) == Cardinality({j \in left : j <= i})
    IN [n \in 1 .. Cardinality(left) |-> tokens[CHOOSE i \in left : place(i) = n]]

\* #issueToken: the oldest tokens make room.
IssueToken(f) ==
    LET kept == Unexpired
        room == IF Len(kept) >= MaxTokens
                THEN SubSeq(kept, Len(kept) - MaxTokens + 2, Len(kept)) ELSE kept
    IN tokens' = Append(room, [file |-> f, until |-> clock + TokenTTL])

CallsService == opening = None /\ fileCalls < MaxCalls /\ fileCalls' = fileCalls + 1

\* readPreview up to its lstat of a regular file.
LookAt ==
    /\ CallsService /\ disk \in Files
    /\ opening' = [for |-> "preview", file |-> disk, seen |-> size[disk]]
    /\ UNCHANGED <<world, tokens, answers>>

\* It opens the file without following links, and throws when that is another one;
\* text, and what is too large, is returned without a token.
ReadPreview ==
    /\ opening # None /\ opening.for = "preview" /\ opening' = None
    /\ \/ disk = opening.file /\ IssueToken(opening.file)
       \/ UNCHANGED tokens
    /\ UNCHANGED <<world, answers, fileCalls>>

\* readAgentImage issues its token on the lstat alone.
ReadAgentImage ==
    /\ CallsService /\ disk \in Files
    /\ IssueToken(disk)
    /\ UNCHANGED <<world, opening, answers>>

-----------------------------------------------------------------------------
(* serveFilePreview.                                                         *)

\* resolvePreviewToken: the path has a regular file, the one a known token names.
ResolvePreviewToken(i) ==
    /\ CallsService
    /\ tokens' = Unexpired
    /\ i \in DOMAIN tokens'
    /\ opening' = IF disk \in Files /\ disk = tokens'[i].file
               THEN [for |-> "serve", file |-> disk, seen |-> size[disk]] ELSE None
    /\ UNCHANGED <<world, answers>>

\* parseByteRange: the bytes from start to end; {} stands for false, answered with 416.
ParseByteRange(r, n) ==
    LET suffix == r.first = None
        start  == IF ~suffix THEN r.first ELSE IF n > r.last THEN n - r.last ELSE 0
        end    == IF suffix \/ r.last = None THEN n - 1
                  ELSE IF r.last < n - 1 THEN r.last ELSE n - 1
        refused == \/ n = 0
                   \/ suffix /\ r.last \in {None, 0}
                   \/ ~suffix /\ r.last # None /\ r.last < r.first
                   \/ start >= n
    IN IF r = None THEN 0 .. n - 1 ELSE IF refused THEN {} ELSE start .. end

\* Fault: what is opened is not compared with the token, and its size is the old one.
Fault_ServePreview(r) ==
    /\ opening # None /\ opening.for = "serve" /\ opening' = None
    /\ answers' = IF disk \notin Files THEN answers
                  ELSE answers \cup {[file |-> disk, of |-> opening.file, size |-> size[disk],
                                      range |-> r, sent |-> ParseByteRange(r, opening.seen)]}
    /\ UNCHANGED <<world, tokens, fileCalls>>

\* The file is opened again, must be the same one, and is read as large as it is now.
ServePreview(r) ==
    /\ opening # None /\ opening.for = "serve" /\ opening' = None
    /\ answers' = IF disk # opening.file THEN answers
                  ELSE answers \cup {[file |-> disk, of |-> opening.file, size |-> size[disk],
                                      range |-> r, sent |-> ParseByteRange(r, size[disk])]}
    /\ UNCHANGED <<world, tokens, fileCalls>>

\* The body has been read from the open file, or its reader is gone.
AnswerRead(a) ==
    /\ answers' = answers \ {a}
    /\ UNCHANGED <<world, tokens, opening, fileCalls>>

FilesNext ==
    \/ \E n \in Sizes : WriteFile(n) \/ ReplaceFile(n)
    \/ UnlinkFile \/ TimePasses
    \/ LookAt \/ ReadPreview \/ ReadAgentImage
    \/ \E i \in 1 .. MaxTokens : ResolvePreviewToken(i)
    \/ \E r \in Ranges : ServePreview(r)
    \/ \E a \in answers : AnswerRead(a)

FilesSpec == FilesInit /\ [][FilesNext]_filesVars

-----------------------------------------------------------------------------
\* The bytes a range names (RFC 9110, 14.1.2): those from first to last, or the last
\* ones, as far as the file has them.
Named(r, n) ==
    {b \in 0 .. n - 1 : \/ r = None
                        \/ r # None /\ r.first = None /\ r.last # None /\ b >= n - r.last
                        \/ r # None /\ r.first # None /\ r.first <= b
                                    /\ (r.last # None => b <= r.last)}

\* Whatever other processes do to the path between a preview, the request for its
\* bytes and their reading, a response carries the file that was previewed, and
\* exactly the bytes its range names in it (fileProtocol.ts).
ResponseIsThePreview ==
    \A a \in answers : a.file = a.of /\ a.sent = Named(a.range, a.size)
=============================================================================
