----------------------------- MODULE FileMeta ------------------------------
(***************************************************************************)
(* How the size of a file gets to its readers, and what they then get:     *)
(* RefreshMeta's goroutine asks the sources for it, once, when the file is *)
(* made (filesystem/inode.go, GetMeta in adapters/http.go); Lookup and     *)
(* GetAttr hand it to the kernel, which keeps it for the attribute timeout *)
(* (fuse/server.go); programs read up to there, chunk by chunk, by range   *)
(* requests (HTTPAdapter.Read).                                            *)
(*                                                                         *)
(* tryOperation is used by what Failover promises of it, and a hit of the  *)
(* data cache is a fetch that returns all that was asked for (InodeRead).  *)
(* The kernel is external: it refuses sizes beyond the signed range, asks  *)
(* for attributes again when they have expired, never reads beyond the     *)
(* size, and takes a short answer for the end of the file.                 *)
(***************************************************************************)
EXTENDS Failover, Integers, Sequences, FiniteSetsExt

CONSTANTS
    Meta,      \* the goroutine of RefreshMeta; the other Threads are programs
    Length,    \* Length[a]: the number of bytes that source a has
    Honours,   \* the sources that answer a Range with 206; the others with 200
    Tells,     \* the sources that answer HEAD with a Content-Length
    Lossy,     \* the sources whose answers may break off
    Sizes,     \* the sizes of the kernel's reads
    Word       \* 2^64: sizes are below it, and -1 wraps around

Readers == Threads \ {Meta}
MaxSize == (Word \div 2) - 1

ASSUME MetaAssumption ==
    /\ NumAdapters \in Nat \ {0}
    /\ Meta \in Threads
    /\ Word \in Nat \ {0, 1}
    /\ Length \in [Adapters -> 0 .. MaxSize]
    /\ Honours \subseteq Adapters
    /\ Tells \subseteq Adapters
    /\ Lossy \subseteq Adapters
    /\ Sizes \subseteq Nat \ {0}

VARIABLES
    size,    \* attr.Size of the inode
    ksize,   \* the size in the kernel
    fresh,   \* the kernel's attributes have not expired
    state,   \* state[r]: where program r is
    shown,   \* shown[r]: the size that the file had when r opened it
    asked,   \* asked[r]: the size of r's read
    buf,     \* buf[r]: what the adapter has read; a byte is named by its place
    got,     \* got[r]: what r has read since it opened the file
    cut      \* some answer has broken off

fileVars   == <<size, ksize, fresh>>
readerVars == <<state, shown, asked, buf, got, cut>>
vars == <<failoverVars, fileVars, readerVars>>

MetaTypeOK ==
    /\ FailoverTypeOK
    /\ size \in 0 .. Word - 1
    /\ ksize \in 0 .. MaxSize
    /\ fresh \in BOOLEAN
    /\ state \in [Readers -> {"idle", "loop", "sent", "eof", "EIO"}]
    /\ shown \in [Readers -> 0 .. MaxSize]
    /\ asked \in [Readers -> Nat]
    /\ buf \in [Readers -> Seq(Nat)]
    /\ got \in [Readers -> Seq(Nat)]
    /\ cut \in BOOLEAN

(* AddFileNode has started the goroutine and linked the node; the size in  *)
(* the request is not used.                                                *)
MetaInit ==
    /\ busy = [t \in Threads |-> t = Meta]
    /\ tried = [t \in Threads |-> {}]
    /\ by = [t \in Threads |-> 0]
    /\ result = [t \in Threads |-> "none"]
    /\ size = 0
    /\ ksize = 0
    /\ fresh = FALSE
    /\ state = [r \in Readers |-> "idle"]
    /\ shown = [r \in Readers |-> 0]
    /\ asked = [r \in Readers |-> 0]
    /\ buf = [r \in Readers |-> << >>]
    /\ got = [r \in Readers |-> << >>]
    /\ cut = FALSE

-----------------------------------------------------------------------------
(* Mutant: the length of a body that is said to be unknown counts as the   *)
(* longest there is.                                                       *)
ContentLengthMax(a) == IF a \in Tells THEN Length[a] ELSE MaxSize

(* Mutant: a length that is one too long. *)
ContentLengthMore(a) == IF a \in Tells THEN Length[a] + 1 ELSE Word - 1

(* Mutant: the length stays signed. *)
ContentLengthSigned(a) == IF a \in Tells THEN Length[a] ELSE 0 - 1

(* uint64(resp.ContentLength); ContentLength is -1 when it is not sent. *)
ContentLength(a) == (IF a \in Tells THEN Length[a] ELSE 0 - 1) % Word

(* The closure of RefreshMeta: GetMeta, then the attributes. *)
MetaFails(a) ==
    /\ Fails(Meta, a)
    /\ UNCHANGED <<fileVars, readerVars>>

MetaSucceeds(a) ==
    /\ Succeeds(Meta, a)
    /\ size' = ContentLength(a)
    /\ UNCHANGED <<ksize, fresh, readerVars>>

(* context.Background() is never cancelled. *)
MetaReturns ==
    /\ Returns(Meta)
    /\ result'[Meta] # "cancelled"
    /\ UNCHANGED <<fileVars, readerVars>>

-----------------------------------------------------------------------------
Move(r, label) == state' = [state EXCEPT ![r] = label]

(* Lookup, or GetAttr when the entry is known: the attributes as they are. *)
Stat(r) ==
    /\ state[r] \in {"idle", "loop"} /\ ~fresh
    /\ \/ /\ size <= MaxSize
          /\ ksize' = size
          /\ fresh' = TRUE
          /\ UNCHANGED state
       \/ /\ size > MaxSize
          /\ Move(r, "EIO")
          /\ UNCHANGED <<ksize, fresh>>
    /\ UNCHANGED <<failoverVars, size, shown, asked, buf, got, cut>>

(* One second later. *)
Expire ==
    /\ fresh
    /\ fresh' = FALSE
    /\ UNCHANGED <<failoverVars, size, ksize, readerVars>>

Open(r) ==
    /\ state[r] = "idle" /\ fresh
    /\ shown' = [shown EXCEPT ![r] = ksize]
    /\ Move(r, "loop")
    /\ UNCHANGED <<failoverVars, fileVars, asked, buf, got, cut>>

Close(r) ==
    /\ state[r] \in {"eof", "EIO"}
    /\ Move(r, "idle")
    /\ shown' = [shown EXCEPT ![r] = 0]
    /\ got' = [got EXCEPT ![r] = << >>]
    /\ UNCHANGED <<failoverVars, fileVars, asked, buf, cut>>

AtEnd(r) ==
    /\ state[r] = "loop" /\ fresh /\ Len(got[r]) >= ksize
    /\ Move(r, "eof")
    /\ UNCHANGED <<failoverVars, fileVars, shown, asked, buf, got, cut>>

(* Read, from where r is. *)
Send(r) ==
    /\ state[r] = "loop" /\ fresh /\ Len(got[r]) < ksize
    /\ Begin(r)
    /\ asked' \in {[asked EXCEPT ![r] = s] : s \in Sizes}
    /\ Move(r, "sent")
    /\ UNCHANGED <<fileVars, shown, buf, got, cut>>

-----------------------------------------------------------------------------
(* HTTPAdapter.Read. *)

(* Mutant: the end of the range is taken for exclusive. *)
RangeLess(offset, s) == [first |-> offset, last |-> offset + s - 2]

(* Range: bytes=offset-(offset+size-1), both ends inclusive. *)
RangeHeader(offset, s) == [first |-> offset, last |-> offset + s - 1]

(* A server (external) has Length[a] bytes, each named by its place.  One  *)
(* that honours ranges sends the part of the range it has with 206, or 416 *)
(* if the range begins at its end or later; any other sends everything,    *)
(* with 200.                                                               *)
Content(a) == [i \in 1 .. Length[a] |-> i - 1]

Unsatisfiable(a, range) == a \in Honours /\ range.first >= Length[a]

Body(a, range) ==
    IF a \in Honours
      THEN SubSeq(Content(a), range.first + 1, Min({range.last + 1, Length[a]}))
      ELSE Content(a)

(* Mutants: a whole body is not skipped up to the offset; it is skipped by *)
(* one byte more.                                                          *)
SkipNone(a, body, offset) == body
SkipPast(a, body, offset) ==
    IF a \in Honours THEN body ELSE SubSeq(body, offset + 2, Len(body))

(* Status 200: io.CopyN throws away the bytes before the offset; it fails  *)
(* if the body ends before.                                                *)
CanSkip(a, body, offset) == a \in Honours \/ Len(body) >= offset

Skip(a, body, offset) ==
    IF a \in Honours THEN body ELSE SubSeq(body, offset + 1, Len(body))

(* io.ReadFull into buf[:size], where an early end is no error. *)
ReadFull(body, s) == SubSeq(body, 1, Min({s, Len(body)}))

(* The source is down, refuses, or its answer cannot be read. *)
FetchFails(r, a) ==
    /\ state[r] = "sent"
    /\ Fails(r, a)
    /\ UNCHANGED <<fileVars, readerVars>>

(* A body that breaks off after n bytes counts as one that ends there. *)
FetchSucceeds(r, a) ==
    LET offset == Len(got[r])
        range  == RangeHeader(offset, asked[r])
        whole  == Body(a, range)
    IN  /\ state[r] = "sent" /\ ~Unsatisfiable(a, range)
        /\ Succeeds(r, a)
        /\ \E n \in 0 .. Len(whole) :
              LET body == SubSeq(whole, 1, n)
              IN  /\ n = Len(whole) \/ a \in Lossy
                  /\ CanSkip(a, body, offset)
                  /\ buf' = [buf EXCEPT ![r] = ReadFull(Skip(a, body, offset), asked[r])]
                  /\ cut' = (cut \/ n < Len(whole))
        /\ UNCHANGED <<fileVars, state, shown, asked, got>>

(* Read replies with the data, of which the program gets what is within    *)
(* the size; after a short answer the size is where it ended, and no data  *)
(* at all is the end.  An error is EIO.                                    *)
Reply(r) ==
    LET d   == buf[r]
        end == Len(got[r]) + Len(d)
    IN  /\ state[r] = "sent"
        /\ Returns(r) /\ result'[r] # "cancelled"
        /\ \/ /\ result'[r] = "ok"
              /\ ksize' = IF Len(d) < asked[r] THEN Min({ksize, end}) ELSE ksize
              /\ got' = [got EXCEPT ![r] = SubSeq(@ \o d, 1, Max({Len(@), Min({end, ksize})}))]
              /\ Move(r, IF d = << >> \/ Len(got[r]) >= ksize THEN "eof" ELSE "loop")
           \/ /\ result'[r] # "ok"
              /\ Move(r, "EIO")
              /\ UNCHANGED <<ksize, got>>
        /\ asked' = [asked EXCEPT ![r] = 0]
        /\ buf' = [buf EXCEPT ![r] = << >>]
        /\ UNCHANGED <<size, fresh, shown, cut>>

-----------------------------------------------------------------------------
MetaNext ==
    \/ MetaReturns \/ Expire
    \/ \E a \in Adapters : MetaFails(a) \/ MetaSucceeds(a)
    \/ \E r \in Readers :
          \/ Stat(r) \/ Open(r) \/ Close(r) \/ AtEnd(r) \/ Send(r) \/ Reply(r)
          \/ \E a \in Adapters : FetchFails(r, a) \/ FetchSucceeds(r, a)

MetaSpec == MetaInit /\ [][MetaNext]_vars

-----------------------------------------------------------------------------
(* The program's data is what the sources have at that place: chunks from  *)
(* ranges and chunks from whole bodies that are skipped through            *)
(* (HTTPAdapter.Read), short answers and changing sizes join without a gap *)
(* and without an overlap.                                                 *)
GotInPlace ==
    \A r \in Readers : \A i \in DOMAIN got[r] : got[r][i] = i - 1

Replicas == \A a, b \in Adapters : Length[a] = Length[b]

(* A program that finds a size, reads to the end and meets no error has    *)
(* the whole file, if the sources agree on its length and no answer broke  *)
(* off: ranges neither overlap nor leave gaps at the end.                  *)
WholeFile ==
    \A r \in Readers :
        Replicas /\ ~cut /\ state[r] = "eof" /\ shown[r] > 0
            => \A a \in Adapters : Len(got[r]) = Length[a]

(* No source is asked for a range that it must refuse, and be counted as   *)
(* failed for: one that begins at its end (416), or behind it, where the   *)
(* skipping fails.  The size that GetMeta reports stops the kernel in      *)
(* time, if the sources agree on the length.                               *)
Refused(a, offset) ==
    Unsatisfiable(a, RangeHeader(offset, 1)) \/ ~CanSkip(a, Content(a), offset)

AskedWithinSource ==
    \A r \in Readers, a \in Adapters :
        Replicas /\ state[r] = "sent" => ~Refused(a, Len(got[r]))

(* The size that programs see is 0, before it is known, or the length of a *)
(* source, whatever short answers the kernel has corrected it by; once an  *)
(* answer has broken off it may be less.  A length that was not sent is no *)
(* exception for one reason only: GetMeta does report it, as 2^64-1        *)
(* (adapters/http.go:172), and the kernel refuses such attributes.         *)
KernelSizeReal ==
    \/ ~cut /\ ksize = 0
    \/ \E a \in Adapters : IF cut THEN ksize <= Length[a] ELSE ksize = Length[a]
=============================================================================
