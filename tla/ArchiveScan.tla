---------------------------- MODULE ArchiveScan ----------------------------
(***************************************************************************)
(* The scan of an incoming folder (application/intake/archive): the files   *)
(* in it, and the members of the ZIP archives among them, archives inside   *)
(* archives included.  One budget of members and of expanded bytes is       *)
(* shared by all archives of a scan.  The recursion of the code is a stack  *)
(* of open archives here, one step per member.                              *)
(*                                                                          *)
(* A path is a sequence of segments, one per "::", each a sequence of       *)
(* names; a name is a number, its rank in the alphabet.  A folder listing   *)
(* and a member list are given in the order the code sorts them into.       *)
(* sha256 is the identity of the contents.                                  *)
(***************************************************************************)
EXTENDS Integers, Sequences, FiniteSets, SequencesExt, FiniteSetsExt

CONSTANTS
  Contents,               \* what the bytes behind each sha256 are
  MaxArchiveFileSize,     \* MAX_ARCHIVE_FILE_SIZE_BYTES
  MaxTotalExpanded,       \* MAX_ARCHIVE_TOTAL_EXPANDED_BYTES
  MaxMemberSize,          \* MAX_ARCHIVE_MEMBER_SIZE_BYTES
  MaxMemberCount,         \* MAX_ARCHIVE_MEMBER_COUNT
  MaxDepth                \* MAX_ARCHIVE_DEPTH

ASSUME LimitsAssumption ==
  {MaxArchiveFileSize, MaxTotalExpanded, MaxMemberSize, MaxMemberCount, MaxDepth}
    \subseteq Nat

(* A member list is finite and names contents; a file has a size.              *)
ASSUME ContentsAssumption ==
  \A c \in DOMAIN Contents :
    /\ Contents[c].size \in Nat
    /\ Contents[c].members \in Seq(Range(Contents[c].members))
    /\ \A m \in Range(Contents[c].members) : m.body \in DOMAIN Contents

VARIABLES
  listing,   \* files of the incoming folder still to visit
  files,     \* ScannedTree.files
  issues,    \* ScannedTree.issues
  budget,    \* ArchiveBudget
  stack,     \* archives being read, innermost last
  opened     \* archives whose members were read (history, for the properties)

scanVars == <<listing, files, issues, budget, stack, opened>>

ScannedFile(path, ext, body) == [path |-> path, ext |-> ext, body |-> body]

(* A name inside the archive that is absolute, empty or climbs with ".." has *)
(* no path: sanitize_archive_member_path gives None, here <<>>.              *)
Unsafe(m) == m.path = <<>>

Issue(kind, path, ext) == [kind |-> kind, path |-> path, ext |-> ext]

BeginScan(folder) ==
  /\ listing' = folder
  /\ files' = <<>> /\ issues' = <<>> /\ stack' = <<>> /\ opened' = {}
  /\ budget' = [members |-> 0, bytes |-> 0]

ScanDone == listing = <<>> /\ stack = <<>>

(* scan_zip_file / scan_nested_zip_bytes and the depth test of scan_zip_handle: *)
(* why the members of this archive are not read, "" when they are.              *)
archive_refusal(body, depth) ==
  IF Contents[body].size > MaxArchiveFileSize THEN "archive_too_large"
  ELSE IF Contents[body].zip # "zip" THEN "invalid_archive"
  ELSE IF depth >= MaxDepth THEN "archive_depth_limit_exceeded"
  ELSE ""

OpenArchive_dropping_parent(path, body, depth, frames, reported) ==
  LET why == archive_refusal(body, depth) IN
  IF why # "" THEN /\ stack' = frames
                   /\ issues' = Append(reported, Issue(why, path, "zip"))
                   /\ UNCHANGED opened
  ELSE /\ stack' = <<[path |-> path, depth |-> depth, seen |-> {},
                      rest |-> Contents[body].members]>>
       /\ issues' = reported
       /\ opened' = opened \cup {[path |-> path, body |-> body]}

OpenArchive(path, body, depth, frames, reported) ==
  LET why == archive_refusal(body, depth) IN
  IF why # "" THEN /\ stack' = frames
                   /\ issues' = Append(reported, Issue(why, path, "zip"))
                   /\ UNCHANGED opened
  ELSE /\ stack' = Append(frames, [path |-> path, depth |-> depth, seen |-> {},
                                   rest |-> Contents[body].members])
       /\ issues' = reported
       /\ opened' = opened \cup {[path |-> path, body |-> body]}

(* The loop of scanned_tree_files, one file of the folder. *)
ScanFile ==
  /\ stack = <<>> /\ listing # <<>>
  /\ LET f == Head(listing)
         path == <<f.path>> IN
     /\ listing' = Tail(listing)
     /\ files' = Append(files, ScannedFile(path, f.ext, f.body))
     /\ CASE f.ext = "zip" -> OpenArchive(path, f.body, 0, <<>>, issues)
          [] f.ext = "tar" -> /\ issues' = Append(issues,
                                   Issue("unsupported_archive_type", path, f.ext))
                              /\ UNCHANGED <<stack, opened>>
          [] OTHER -> UNCHANGED <<stack, issues, opened>>
  /\ UNCHANGED budget

resolve_archive_member(a, m) ==
  IF Unsafe(m) THEN "unsafe_archive_member_path"
  ELSE IF <<m.path, m.ext>> \in a.seen THEN "duplicate_archive_member_path"
  ELSE ""

(* handle_archive_member_limits, in the order the code asks. *)
handle_archive_member_limits(m) ==
  IF budget.members >= MaxMemberCount THEN "archive_member_limit_exceeded"
  ELSE IF m.attr \in {"encrypted_archive_member", "unsupported_archive_compression",
                      "unsupported_archive_member_type"} THEN m.attr
  ELSE IF Contents[m.body].size > MaxMemberSize THEN "archive_member_too_large"
  ELSE ""

(* read_archive_member: a read error skips the member; a bad checksum is a     *)
(* BadZipFile, which ends the archive in the caller's except clause.           *)
read_archive_member(m) ==
  LET limit == handle_archive_member_limits(m) IN
  IF limit # "" THEN limit
  ELSE IF budget.bytes + Contents[m.body].size > MaxTotalExpanded
    THEN "archive_expanded_size_limit_exceeded"
  ELSE IF m.attr = "unreadable" THEN "archive_member_read_failed"
  ELSE IF m.attr = "corrupt" THEN "invalid_archive"
  ELSE ""

EndsArchive == {"archive_member_limit_exceeded", "archive_expanded_size_limit_exceeded",
                "invalid_archive"}

OfArchive == EndsArchive \cup {"unsafe_archive_member_path"}

(* One member of the innermost open archive; directories are passed over.      *)
ScanMember ==
  /\ stack # <<>> /\ Last(stack).rest # <<>>
  /\ LET a == Last(stack)
         m == Head(a.rest)
         path == Append(a.path, m.path)
         unresolved == resolve_archive_member(a, m)
         failed == IF unresolved # "" THEN unresolved ELSE read_archive_member(m)
         at == IF failed \in OfArchive THEN a.path ELSE path
         ext == IF failed \in OfArchive THEN "zip" ELSE m.ext
         next == [a EXCEPT !.rest = IF failed \in EndsArchive THEN <<>> ELSE Tail(@),
                           !.seen = IF unresolved = "" THEN @ \cup {<<m.path, m.ext>>} ELSE @]
         frames == Append(Front(stack), next) IN
     IF m.attr = "dir"
     THEN /\ stack' = Append(Front(stack), [a EXCEPT !.rest = Tail(@)])
          /\ UNCHANGED <<files, issues, budget, opened>>
     ELSE IF failed # ""
     THEN /\ issues' = Append(issues, Issue(failed, at, ext))
          /\ stack' = frames
          /\ UNCHANGED <<files, budget, opened>>
     ELSE /\ budget' = [members |-> budget.members + 1,
                        bytes |-> budget.bytes + Contents[m.body].size]
          /\ files' = Append(files, ScannedFile(path, m.ext, m.body))
          /\ IF m.ext = "zip" THEN OpenArchive(path, m.body, a.depth + 1, frames, issues)
             ELSE stack' = frames /\ UNCHANGED <<issues, opened>>
  /\ UNCHANGED listing

CloseArchive ==
  /\ stack # <<>> /\ Last(stack).rest = <<>>
  /\ stack' = Front(stack)
  /\ UNCHANGED <<listing, files, issues, budget, opened>>

ScanStep == ScanFile \/ ScanMember \/ CloseArchive

-----------------------------------------------------------------------------

Reported(path, ext) == \E i \in DOMAIN issues : issues[i].path = path /\ issues[i].ext = ext

(* When the scan is over, every member of every archive it opened is a scanned *)
(* file or is named by an issue, its own or one that says its archive was left *)
(* unfinished, and every archive among the files was opened or is named by an  *)
(* issue: no evidence drops out of an intake without a line about it           *)
(* (read_archive_member's early returns against scan_zip_handle's loop).       *)
MembersAccounted ==
  ScanDone =>
    /\ \A a \in opened : \A m \in Range(Contents[a.body].members) :
         m.attr # "dir" =>
           LET path == Append(a.path, m.path) IN
           \/ \E i \in DOMAIN files : files[i].path = path /\ files[i].ext = m.ext
           \/ Reported(path, m.ext)
           \/ Reported(a.path, "zip")
    /\ \A i \in DOMAIN files : files[i].ext = "zip" =>
         \/ \E a \in opened : a.path = files[i].path
         \/ Reported(files[i].path, "zip")

ExpandedBytes(scanned, read) == MapThenSumSet(LAMBDA i : Contents[scanned[i].body].size, read)

(* Whatever archives the folder holds and however they nest, one scan never    *)
(* reads more members or more bytes out of them than the limits allow, and two *)
(* scanned files never have one path.                                          *)
ExpansionBounded ==
  LET read == {i \in DOMAIN files : Len(files[i].path) > 1} IN
  /\ Cardinality(read) <= MaxMemberCount
  /\ ExpandedBytes(files, read) <= MaxTotalExpanded
  /\ \A i, j \in DOMAIN files :
       files[i].path = files[j].path /\ files[i].ext = files[j].ext => i = j

(* A scan accounts for everything it may read and reads no more than it may.   *)
ScanIsComplete == MembersAccounted /\ ExpansionBounded
=============================================================================
