------------------------------ MODULE HttpZip ------------------------------
(***************************************************************************)
(* Reading one entry of a remote ZIP archive with HTTP ranges              *)
(* (neon-helper/src/httpzip.rs): the size, the tail with the end record,   *)
(* the ZIP64 end record if a field does not fit 32 bits, the central       *)
(* directory, then the local header and the data of an entry.              *)
(*                                                                         *)
(* Of the bytes kept from an answer the place of the first in the archive  *)
(* is modelled: a record is found where it begins, seen from there.        *)
(* Archives are well-formed and do not change meanwhile.                   *)
(***************************************************************************)
EXTENDS Integers, SequencesExt

CONSTANTS Archives,   \* archives that may be opened
          Sentinel,   \* ZIP64_SENTINEL, the greatest value of a 32-bit field
          TailLimit   \* TAIL_SEARCH_LIMIT

(* Of each file: its sizes, the lengths of its name, comment and extra     *)
(* field in the local header, and the sizes of the other extra blocks      *)
(* around the ZIP64 one.                                                   *)
File == [method : {"store", "deflate", "other"}, packed : Nat, plain : Nat, name : Nat, local : Nat,
         note : Nat, before : Seq(Nat), after : Seq(Nat)]

ASSUME ZipAssumption ==
  /\ Archives \subseteq
       [files : Seq(File), comment : Nat, trailer : Nat, force : SUBSET {"size", "offset"}]
  /\ Sentinel \in Nat \ {0} /\ TailLimit \in Nat

VARIABLES pc,        \* the request that comes next
          archive,   \* the archive behind the URL
          size,      \* its size, as fetch_content_length has found it
          cd,        \* size and offset of the central directory, as read
          entries,   \* RemoteArchive::entries
          entry,     \* the entry that is opened
          body,      \* the range of the archive that EntryReader reads
          answers    \* history: how the server has answered

zipVars == <<pc, archive, size, cd, entries, entry, body, answers>>

-----------------------------------------------------------------------------
(* The archive, as the format lays it out.                                 *)

Wide(n) == n >= Sentinel

Short(n) == IF Wide(n) THEN Sentinel ELSE n

(* The sum of the first n lengths.                                         *)
SumTo(lengths, n) ==
  LET f[k \in 0..n] == IF k = 0 THEN 0 ELSE f[k - 1] + lengths[k]
  IN  f[n]

LocalAt(a, i) ==
  SumTo([j \in DOMAIN a.files |->
           30 + a.files[j].name + a.files[j].local + a.files[j].packed], i - 1)

DataAt(a, i) == LocalAt(a, i) + 30 + a.files[i].name + a.files[i].local

Others(sizes) == [j \in DOMAIN sizes |-> [id |-> 0, size |-> sizes[j], values |-> <<>>]]

IfWide(n) == IF Wide(n) THEN <<n>> ELSE <<>>

Extra(a, i) ==
  LET f      == a.files[i]
      values == IfWide(f.plain) \o IfWide(f.packed) \o IfWide(LocalAt(a, i))
      zip64  == IF values = <<>> THEN <<>>
                ELSE <<[id |-> 1, size |-> 8 * Len(values), values |-> values]>>
  IN  Others(f.before) \o zip64 \o Others(f.after)

ExtraLen(blocks) == SumTo([j \in DOMAIN blocks |-> 4 + blocks[j].size], Len(blocks))

(* A central directory header.                                             *)
Header(a, i) ==
  LET f == a.files[i] IN
  [method |-> f.method, packed |-> Short(f.packed), plain |-> Short(f.plain),
   name |-> f.name, extra |-> Extra(a, i), note |-> f.note, offset |-> Short(LocalAt(a, i))]

HeaderLen(h) == 46 + h.name + ExtraLen(h.extra) + h.note

HeaderAt(a, i) == SumTo([j \in DOMAIN a.files |-> HeaderLen(Header(a, j))], i - 1)

CdSize(a) == HeaderAt(a, Len(a.files) + 1) + a.trailer

CdOffset(a) == LocalAt(a, Len(a.files) + 1)

(* The fields that the end record leaves to the ZIP64 end record.          *)
In64(a) == a.force \cup (IF Wide(CdSize(a)) THEN {"size"} ELSE {})
                   \cup (IF Wide(CdOffset(a)) THEN {"offset"} ELSE {})

Eocd64At(a) == CdOffset(a) + CdSize(a)

LocatorAt(a) == Eocd64At(a) + 56

EocdAt(a) == IF In64(a) = {} THEN Eocd64At(a) ELSE LocatorAt(a) + 20

ArchiveSize(a) == EocdAt(a) + 22 + a.comment

Eocd(a) == [size   |-> IF "size" \in In64(a) THEN Sentinel ELSE CdSize(a),
            offset |-> IF "offset" \in In64(a) THEN Sentinel ELSE CdOffset(a)]

Eocd64(a) == [size |-> CdSize(a), offset |-> CdOffset(a)]

-----------------------------------------------------------------------------
(* Parsing                                                                 *)

(* A field that holds the sentinel takes the next value.                   *)
Fill(acc, f) ==
  IF acc.e[f] = Sentinel
  THEN [e |-> [acc.e EXCEPT ![f] = Head(acc.left)], left |-> Tail(acc.left)]
  ELSE acc

(* Mutant of FillFrom: the sizes in the order of the directory header.     *)
FillFromInHeaderOrder(e, values) ==
  Fill(Fill(Fill([e |-> e, left |-> values], "packed"), "plain"), "offset").e

(* One block of parse_zip64_extra: the fields in this order.               *)
FillFrom(e, values) ==
  Fill(Fill(Fill([e |-> e, left |-> values], "plain"), "packed"), "offset").e

ParseZip64Extra(e, blocks) ==
  LET f[n \in 0..Len(blocks)] ==
        IF n = 0 THEN e
        ELSE IF blocks[n].id = 1 THEN FillFrom(f[n - 1], blocks[n].values)
        ELSE f[n - 1]
  IN  f[Len(blocks)]

EntryOf(h) ==
  LET e == [method |-> h.method, packed |-> h.packed, plain |-> h.plain, offset |-> h.offset]
  IN  IF Sentinel \in {e.packed, e.plain, e.offset} THEN ParseZip64Extra(e, h.extra) ELSE e

(* Where parse_central_directory looks for a header it adds an entry and   *)
(* steps over name, extra field and comment; at anything else it ends.     *)
(* Its first byte is at this place, counted from that of the directory.    *)
ParseCentralDirectory(a, first) ==
  LET f[n \in 0..Len(a.files)] ==
        IF n = 0 THEN [at |-> first, entries |-> <<>>]
        ELSE LET h == Header(a, n)
             IN  IF f[n - 1].at = HeaderAt(a, n)
                 THEN [at      |-> f[n - 1].at + 46 + h.name + ExtraLen(h.extra) + h.note,
                       entries |-> Append(f[n - 1].entries, EntryOf(h))]
                 ELSE f[n - 1]
  IN  f[Len(a.files)].entries

-----------------------------------------------------------------------------
(* Requests                                                                *)

Answers == {"partial", "whole", "error"}

(* Mutant of Fetched: 200 is taken for any range.                          *)
FetchedAnyStart(start, end, r) ==
  \/ r = "partial" /\ start < ArchiveSize(archive)
  \/ r = "whole" /\ end < ArchiveSize(archive)

(* fetch_range: 206, or 200 for a range from the start, cut to its length. *)
Fetched(start, end, r) ==
  \/ r = "partial" /\ start < ArchiveSize(archive)
  \/ r = "whole" /\ start = 0 /\ end < ArchiveSize(archive)

(* Where the bytes it keeps begin: 200 brings the archive from its start.  *)
First(start, r) == IF r = "whole" THEN 0 ELSE start

Hear(r) == answers' = answers \cup {r}

Fail == pc' = "failed" /\ UNCHANGED <<size, cd, entries, entry, body>>

ZipInit ==
  /\ pc = "idle"
  /\ archive = <<>>
  /\ size = 0
  /\ cd = [size |-> 0, offset |-> 0]
  /\ entries = <<>>
  /\ entry = 0
  /\ body = <<>>
  /\ answers = {}

Open(a) ==
  /\ pc = "idle"
  /\ pc' = "head"
  /\ archive' = a
  /\ UNCHANGED <<size, cd, entries, entry, body, answers>>

(* fetch_content_length: HEAD, whose length may be missing.                *)
HeadRequest ==
  /\ pc = "head"
  /\ \/ /\ pc' = "tail" /\ size' = ArchiveSize(archive)
        /\ UNCHANGED <<cd, entries, entry, body, answers>>
     \/ /\ pc' = "probe"
        /\ UNCHANGED <<size, cd, entries, entry, body, answers>>
     \/ Hear("error") /\ Fail
  /\ UNCHANGED archive

(* The first byte: its total length, or the length of what was sent.       *)
Probe ==
  /\ pc = "probe"
  /\ \/ /\ pc' = "tail" /\ size' = ArchiveSize(archive)
        /\ UNCHANGED <<cd, entries, entry, body, answers>>
     \/ /\ pc' = "tail" /\ size' = 1 /\ Hear("no total")
        /\ UNCHANGED <<cd, entries, entry, body>>
     \/ Hear("error") /\ Fail
  /\ UNCHANGED archive

TailStart == IF size > TailLimit THEN size - TailLimit ELSE 0

(* The end of locate_central_directory.                                    *)
Located(at) ==
  IF at.offset + at.size > size THEN Fail
  ELSE /\ cd' = at
       /\ pc' = IF at.size = 0 THEN "opened" ELSE "directory"
       /\ UNCHANGED <<size, entries, entry, body>>

(* The last signature of the end record in the tail; then that of the      *)
(* locator, if a field of it does not fit.                                 *)
FetchTail ==
  /\ pc = "tail"
  /\ \E r \in Answers :
       /\ Hear(r)
       /\ LET first == First(TailStart, r)
              last  == first + (size - 1 - TailStart)
          IN
          IF ~Fetched(TailStart, size - 1, r) \/ EocdAt(archive) \notin first..last - 21
          THEN Fail
          ELSE IF Sentinel \notin {Eocd(archive).size, Eocd(archive).offset}
          THEN Located(Eocd(archive))
          ELSE IF In64(archive) = {} \/ LocatorAt(archive) < first
          THEN Fail
          ELSE pc' = "zip64" /\ UNCHANGED <<size, cd, entries, entry, body>>
  /\ UNCHANGED archive

(* The bytes must begin with the signature of the record.                  *)
FetchZip64 ==
  /\ pc = "zip64"
  /\ LET at == Eocd64At(archive) IN
     \E r \in Answers :
       /\ Hear(r)
       /\ IF Fetched(at, at + 55, r) /\ First(at, r) = at THEN Located(Eocd64(archive)) ELSE Fail
  /\ UNCHANGED archive

FetchDirectory ==
  /\ pc = "directory"
  /\ \E r \in Answers :
       /\ Hear(r)
       /\ IF Fetched(cd.offset, cd.offset + cd.size - 1, r)
          THEN /\ pc' = "opened"
               /\ entries' = ParseCentralDirectory(archive, First(cd.offset, r) - CdOffset(archive))
               /\ UNCHANGED <<size, cd, entry, body>>
          ELSE Fail
  /\ UNCHANGED archive

OpenEntry(i) ==
  /\ pc = "opened"
  /\ pc' = "header"
  /\ entry' = i
  /\ UNCHANGED <<archive, size, cd, entries, body, answers>>

Method(range) ==
  /\ pc' = IF entries[entry].method \in {"store", "deflate"} THEN "read" ELSE "failed"
  /\ body' = range

(* The local header and what may follow it; the lengths in it are those of *)
(* the header with which the bytes begin.                                  *)
FetchHeader ==
  /\ pc = "header"
  /\ LET e == entries[entry] IN
     \E r \in Answers :
       /\ Hear(r)
       /\ IF Fetched(e.offset, e.offset + 30 + 256, r)
          THEN /\ \E i \in DOMAIN archive.files :
                    /\ LocalAt(archive, i) = First(e.offset, r)
                    /\ LET at == e.offset + 30 + archive.files[i].name + archive.files[i].local
                       IN  IF e.packed = 0 THEN Method(<<at, 0>>)
                                           ELSE pc' = "stream" /\ body' = <<at, e.packed>>
               /\ UNCHANGED <<size, cd, entries, entry>>
          ELSE Fail
  /\ UNCHANGED archive

(* fetch_range_stream                                                      *)
FetchStream ==
  /\ pc = "stream"
  /\ \E r \in Answers :
       /\ Hear(r)
       /\ IF Fetched(body[1], body[1] + body[2] - 1, r)
          THEN Method(<<First(body[1], r), body[2]>>) /\ UNCHANGED <<size, cd, entries, entry>>
          ELSE Fail
  /\ UNCHANGED archive

ZipNext ==
  \/ \E a \in Archives : Open(a)
  \/ HeadRequest \/ Probe \/ FetchTail \/ FetchZip64 \/ FetchDirectory
  \/ \E i \in DOMAIN entries : OpenEntry(i)
  \/ FetchHeader \/ FetchStream

ZipSpec == ZipInit /\ [][ZipNext]_zipVars

-----------------------------------------------------------------------------
(* RemoteArchive::open gives the files of the archive, with their sizes    *)
(* and places also where these do not fit 32 bits, and ArchiveEntry::open  *)
(* exactly the data of the entry.  Either fails only on an answer that is  *)
(* not the range asked for, a method it does not know, or an end record    *)
(* (with its locator) that begins before the tail.                         *)
EntryIsRead ==
  LET a     == archive
      begin == IF In64(a) = {} THEN EocdAt(a) ELSE LocatorAt(a)
  IN
  /\ pc \in {"opened", "header", "stream", "read"} =>
       /\ Len(entries) = Len(a.files)
       /\ \A i \in DOMAIN entries :
            /\ entries[i].offset = LocalAt(a, i)
            /\ entries[i].packed = a.files[i].packed
            /\ entries[i].plain = a.files[i].plain
            /\ entries[i].method = a.files[i].method
  /\ pc = "read" => body = <<DataAt(a, entry), a.files[entry].packed>>
  /\ pc = "failed" =>
       \/ answers \ {"partial"} # {}
       \/ ArchiveSize(a) - begin > TailLimit
       \/ entry # 0 /\ a.files[entry].method \notin {"store", "deflate"}
=============================================================================
