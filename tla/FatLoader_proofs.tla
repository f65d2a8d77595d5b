-------------------------- MODULE FatLoader_proofs --------------------------
(***************************************************************************)
(* Proofs about FatLoader: what a load from a drive does to the flash, for *)
(* every chip, page size, set of drives and number of faults.              *)
(***************************************************************************)
EXTENDS FatLoader, TLAPS

USE LoaderAssumption, FlashAssumption

(* Page arithmetic.  A page start is followed by a page start. *)
LEMMA NextPage == ASSUME NEW d \in Nat, d % PAGE_SIZE = 0
                  PROVE  (d + PAGE_SIZE) % PAGE_SIZE = 0
<1> DEFINE q == d \div PAGE_SIZE
<1>1. q \in Nat /\ d = q * PAGE_SIZE
  BY DEF PAGE_SIZE
<1>2. \A k \in Nat : (k * PAGE_SIZE) % PAGE_SIZE = 0
  BY DEF PAGE_SIZE
<1>3. d + PAGE_SIZE = (q + 1) * PAGE_SIZE
  BY <1>1 DEF PAGE_SIZE
<1>4. QED
  BY <1>1, <1>2, <1>3

(* The page at the end of a file of s units ends where Touched says. *)
LEMMA LastPage == ASSUME NEW s \in Nat, NEW d \in Nat, d <= s, d % PAGE_SIZE = 0
                  PROVE  d + PAGE_SIZE <= (s \div PAGE_SIZE + 1) * PAGE_SIZE
<1> DEFINE q == d \div PAGE_SIZE
           r == s \div PAGE_SIZE
<1>1. q \in Nat /\ d = q * PAGE_SIZE
  BY DEF PAGE_SIZE
<1>2. r \in Nat /\ s < (r + 1) * PAGE_SIZE
  BY DEF PAGE_SIZE
<1>3. \A m, n \in Nat : m * PAGE_SIZE < (n + 1) * PAGE_SIZE
                        => (m + 1) * PAGE_SIZE <= (n + 1) * PAGE_SIZE
  BY DEF PAGE_SIZE
<1>4. d + PAGE_SIZE = (q + 1) * PAGE_SIZE
  BY <1>1 DEF PAGE_SIZE
<1> HIDE DEF q, r
<1>5. q * PAGE_SIZE < (r + 1) * PAGE_SIZE
  BY <1>1, <1>2 DEF PAGE_SIZE
<1>6. (q + 1) * PAGE_SIZE <= (r + 1) * PAGE_SIZE
  BY <1>1, <1>2, <1>3, <1>5
<1>7. QED
  BY <1>4, <1>6 DEF r

(* A file that is open has a size and a content. *)
LEMMA FileTyped == ASSUME drive \in Drives, at \in Nat \ {0}, at <= Len(drive)
                   PROVE  TheFile \in File
<1>1. drive \in Seq(Entry)
  OBVIOUS
<1>2. drive[at] \in Entry
  BY <1>1
<1>3. QED
  BY <1>2 DEF TheFile, Entry

(* Erasing and writing keep the type of the flash, and a write puts the file
   where the flash is erased. *)
LEMMA EraseTyped == ASSUME flash \in Flash, NEW a \in Nat PROVE Erase(flash, a) \in Flash
  BY DEF Erase, Flash, Content

LEMMA WrittenTyped == ASSUME flash \in Flash, TheFile \in File PROVE Written \in Flash
  BY DEF Written, Programmed, Flash, Content, File

LEMMA TornTyped == ASSUME flash \in Flash, NEW done \in Flash, NEW n \in Nat,
                          NEW f \in Torn(done, n)
                   PROVE  f \in Flash
<1>1. \A k \in Nat, s \in BOOLEAN : Cut(done, k, s) \in Flash
  BY DEF Cut, Flash, Content
<1>2. QED
  BY <1>1 DEF Torn

(* An operation that is cut off reaches no further than a whole one. *)
LEMMA TornKeeps == ASSUME flash \in Flash, data_written \in Nat, NEW done, NEW n \in Nat,
                          NEW f \in Torn(done, n), NEW u \in Units, f[u] # flash[u]
                   PROVE  u < data_written + n
<1>1. PICK k \in 0 .. n - 1, s \in BOOLEAN : f = Cut(done, k, s)
  BY DEF Torn
<1>2. u < data_written + k \/ u = data_written + k
  BY <1>1 DEF Cut
<1>3. QED
  BY <1>2 DEF Units

(* What a flash operation leaves behind. *)
LEMMA OperationTyped == ASSUME TypeOK, NEW done \in Flash, NEW n \in Nat, Operation(done, n)
                        PROVE  /\ flash' \in Flash /\ flash_err' \in BOOLEAN
                               /\ faults' \in 0 .. MaxFaults
                               /\ ~flash_err' => flash' = done /\ ~flash_err
<1>1. CASE flash' = done /\ UNCHANGED <<flash_err, faults>>
  BY <1>1 DEF TypeOK
<1>2. CASE Event /\ flash' \in Torn(done, n) /\ flash_err' = TRUE
  BY <1>2, TornTyped DEF Event, TypeOK
<1>3. QED
  BY <1>1, <1>2 DEF Operation

(* The first state satisfies the invariant. *)
LEMMA InitLoaderInv == Init => LoaderInv
<1> SUFFICES ASSUME Init PROVE LoaderInv
  OBVIOUS
<1>1. flash \in Flash
  BY DEF Init, Flash, Content
<1>2. data_written \in 0 .. FlashUnits /\ data_read \in 0 .. FILE_BUFF_LEN
      /\ at \in Nat \ {0} /\ faults \in 0 .. MaxFaults
  BY DEF Init, FILE_BUFF_LEN
<1>3. TypeOK
  BY <1>1, <1>2, Zenon DEF Init, TypeOK, FatfsResult, Pc
<1>4. QED
  BY <1>3 DEF Init, LoaderInv, FileOpen, Opened, LoopsAgree, ProgramCopied, FlashedWhole,
              SkippedEqual, Copying

(* What the invariant says of an open file. *)
LEMMA OpenTyped == ASSUME LoaderInv, pc \notin {"idle", "opendir", "readdir", "return"}
                   PROVE  TheFile \in File
<1>1. at <= Len(drive)
  BY DEF LoaderInv, TypeOK, FileOpen, Opened, Copying, Pc
<1>2. QED
  BY <1>1, FileTyped DEF LoaderInv, TypeOK

(* What is left of the file, up to a page. *)
LEMMA LeftTyped == ASSUME LoaderInv, pc = "compare" \/ Copying
                   PROVE  /\ Left \in 0 .. FILE_BUFF_LEN
                          /\ data_written \in Nat /\ TheFile.size \in 0 .. FlashUnits - 1
                          /\ data_written + Left <= TheFile.size
                          /\ Left < FILE_BUFF_LEN => data_written + Left = TheFile.size
<1>1. TheFile \in File
  BY OpenTyped DEF Copying
<1>2. data_written \in Nat /\ data_written <= TheFile.size
  BY DEF LoaderInv, LoopsAgree, TypeOK
<1>3. QED
  BY <1>1, <1>2 DEF Left, File, FILE_BUFF_LEN

(* What the calls of FatFs leave behind. *)
LEMMA FaultsTyped == ASSUME TypeOK, Succeeds \/ Fails PROVE faults' \in 0 .. MaxFaults
  BY DEF TypeOK, Succeeds, Fails, Event

LEMMA ReadTyped == ASSUME TypeOK, NEW n, ReadsUnits(n)
                   PROVE  faults' \in 0 .. MaxFaults /\ file_err' \in BOOLEAN
<1>1. faults' \in 0 .. MaxFaults
  BY FaultsTyped DEF ReadsUnits, TypeOK
<1>2. file_err' = file_err \/ file_err' = TRUE
  BY DEF ReadsUnits
<1>3. QED
  BY <1>1, <1>2 DEF TypeOK

LEMMA LogTyped == ASSUME TypeOK, NEW b \in BOOLEAN, UpdateLog(b) \/ UNCHANGED log
                  PROVE  log' \in {"none", "success", "error"}
  BY DEF TypeOK, UpdateLog

(* One round of the compare. *)
LEMMA CompareLoaderInv == LoaderInv /\ Compare => LoaderInv'
<1> SUFFICES ASSUME LoaderInv, Compare PROVE LoaderInv'
  OBVIOUS
<1> USE DEF LoaderInv, Compare
<1>1. PICK n \in 0 .. FILE_BUFF_LEN :
        /\ ReadsUnits(n)
        /\ \/ /\ Identical(n) /\ n = FILE_BUFF_LEN
              /\ data_written' = data_written + n
              /\ UNCHANGED <<log, result, pc>>
           \/ /\ Identical(n) /\ n < FILE_BUFF_LEN
              /\ Answer("ALREADY_LOADED") /\ data_written' = 0 /\ UNCHANGED log
           \/ /\ ~Identical(n) /\ data_written' = 0
              /\ \/ valid /\ pc' = "check" /\ UNCHANGED <<log, result>>
                 \/ ~valid /\ NotAProgram
  OBVIOUS
<1>2. TheFile \in File /\ TheFile' = TheFile
  BY OpenTyped DEF TheFile, caller
<1>3. n \in 0 .. Left /\ (~file_err' => n = Left /\ ~file_err)
  BY <1>1, LeftTyped DEF ReadsUnits
<1>4. data_written + n <= TheFile.size /\ (n < FILE_BUFF_LEN /\ ~file_err'
                                           => data_written + n = TheFile.size)
  BY <1>3, LeftTyped DEF Copying
<1>5. Identical(n) => \A u \in Units : u < data_written + n => flash[u] = TheFile.unit[u]
  <2> SUFFICES ASSUME Identical(n), NEW u \in Units, u < data_written + n
               PROVE  flash[u] = TheFile.unit[u]
    OBVIOUS
  <2>1. CASE u < data_written
    BY <2>1 DEF LoopsAgree, Copying
  <2>2. CASE ~(u < data_written)
    <3>1. u - data_written \in Units /\ u - data_written < n
          /\ data_written + (u - data_written) = u
      BY <2>2, <1>4, LeftTyped DEF Units
    <3>2. QED
      BY <3>1 DEF Identical
  <2>3. QED
    BY <2>1, <2>2
<1>6. TypeOK'
  <2>1. faults' \in 0 .. MaxFaults /\ file_err' \in BOOLEAN
    BY <1>1, ReadTyped
  <2>2. log' \in {"none", "success", "error"}
    BY <1>1, LogTyped DEF NotAProgram
  <2>3. pc' \in Pc /\ result' \in FatfsResult
    BY <1>1 DEF TypeOK, Answer, NotAProgram, FatfsResult, Pc
  <2>4. data_written' \in 0 .. FlashUnits
    BY <1>1, <1>4, LeftTyped DEF TypeOK
  <2>5. QED
    BY <2>1, <2>2, <2>3, <2>4 DEF TypeOK, caller, dfu, FILE_BUFF_LEN
<1>7. FileOpen'
  <2>1. FileOpen /\ pc = "compare"
    OBVIOUS
  <2>2. at <= Len(drive) /\ IsBin(drive[at]) /\ \A i \in 1 .. at - 1 : ~IsBin(drive[i])
    BY <2>1 DEF FileOpen, Opened
  <2>3. pc' \notin {"opendir", "readdir"}
    BY <1>1 DEF Answer, NotAProgram
  <2>4. QED
    BY <2>2, <2>3 DEF FileOpen, caller, IsBin
<1>8. LoopsAgree'
  <2>1. CASE pc' = "compare"
    <3>1. n = FILE_BUFF_LEN /\ Identical(n) /\ data_written' = data_written + n
      BY <1>1, <2>1 DEF Answer, NotAProgram
    <3>2. data_written' <= TheFile.size /\ data_written' % PAGE_SIZE = 0
      BY <3>1, <1>4, NextPage, LeftTyped DEF LoopsAgree, FILE_BUFF_LEN, PAGE_SIZE
    <3>3. QED
      BY <2>1, <3>1, <3>2, <1>2, <1>5 DEF LoopsAgree, Copying
  <2>2. CASE pc' # "compare"
    <3>1. pc' \in {"check", "return"} /\ data_written' = 0
      BY <1>1, <2>2 DEF Answer, NotAProgram
    <3>2. QED
      BY <3>1, <2>2 DEF LoopsAgree, Copying
  <2>3. QED
    BY <2>1, <2>2
<1>9. ProgramCopied'
  <2>1. CASE pc' = "check"
    <3>1. ~Identical(n) /\ valid
      BY <1>1, <2>1 DEF Answer, NotAProgram
    <3>2. n > 0
      BY <3>1, <1>3, LeftTyped DEF Identical, Units
    <3>3. ~file_err
      BY <1>1, <3>2 DEF ReadsUnits
    <3>4. TheFile.size > 0
      BY <3>2, <1>4, LeftTyped
    <3>5. QED
      BY <2>1, <3>1, <3>3, <3>4, <1>2 DEF ProgramCopied, Copying
  <2>2. CASE pc' # "check"
    <3>1. pc' \in {"compare", "return"}
      BY <1>1, <2>2 DEF Answer, NotAProgram
    <3>2. ~file_err' => ~file_err
      BY <1>3
    <3>3. QED
      BY <3>1, <3>2, <2>2, <1>2 DEF ProgramCopied, Copying
  <2>3. QED
    BY <2>1, <2>2
<1>10. FlashedWhole' /\ SkippedEqual'
  BY <1>1, <1>2, <1>4, <1>5
  DEF FlashedWhole, SkippedEqual, Holds, Answer, NotAProgram, Units, File
<1>11. QED
  BY <1>6, <1>7, <1>8, <1>9, <1>10

(* The page to be written is erased, unless the operation fails. *)
LEMMA EraseLoaderInv == LoaderInv /\ ErasePage => LoaderInv'
<1> SUFFICES ASSUME LoaderInv, ErasePage PROVE LoaderInv'
  OBVIOUS
<1> USE DEF LoaderInv
<1>1. /\ pc = "erase" /\ pc' = "read" /\ TheFile' = TheFile
      /\ Operation(Erase(flash, data_written), PAGE_SIZE)
      /\ data_written \in Nat /\ data_written' = data_written
  BY DEF ErasePage, TheFile, caller, copy, LoopsAgree, Copying, TypeOK
<1>2. /\ flash' \in Flash /\ flash_err' \in BOOLEAN /\ faults' \in 0 .. MaxFaults
      /\ ~flash_err' => flash' = Erase(flash, data_written) /\ ~flash_err
  BY <1>1, EraseTyped, OperationTyped DEF TypeOK, PAGE_SIZE
<1> USE DEF ErasePage
<1>3. TypeOK'
  BY <1>1, <1>2 DEF TypeOK, caller, copy, dfu, Pc, FILE_BUFF_LEN
<1>4. FileOpen'
  BY DEF FileOpen, Opened, Copying, caller, IsBin
<1>5. LoopsAgree'
  <2>1. CASE flash_err'
    BY <2>1, <1>1 DEF LoopsAgree, Copying
  <2>2. CASE ~flash_err'
    BY <2>2, <1>1, <1>2 DEF LoopsAgree, Copying, Erase, EraseRange, Units
  <2>3. QED
    BY <2>1, <2>2
<1>6. ProgramCopied' /\ FlashedWhole' /\ SkippedEqual'
  BY <1>1 DEF ProgramCopied, FlashedWhole, SkippedEqual, Copying
<1>7. QED
  BY <1>3, <1>4, <1>5, <1>6

(* The units that were read are written over erased ones, unless an operation
   fails or has failed. *)
LEMMA WriteLoaderInv == LoaderInv /\ WritePage => LoaderInv'
<1> SUFFICES ASSUME LoaderInv, WritePage PROVE LoaderInv'
  OBVIOUS
<1> USE DEF LoaderInv, WritePage
<1>1. /\ pc = "write" /\ TheFile \in File /\ TheFile' = TheFile
      /\ Operation(Written, data_read)
      /\ data_written' = data_written + data_read /\ data_read' = 0
      /\ UNCHANGED file_err
  BY OpenTyped DEF TheFile, caller
<1>2. /\ data_written \in Nat /\ data_read \in 0 .. FILE_BUFF_LEN
      /\ data_written + data_read <= TheFile.size /\ data_written % PAGE_SIZE = 0
      /\ data_read = Left \/ file_err
  BY <1>1 DEF LoopsAgree, TypeOK, Copying
<1>3. /\ flash' \in Flash /\ flash_err' \in BOOLEAN /\ faults' \in 0 .. MaxFaults
      /\ ~flash_err' => flash' = Written /\ ~flash_err
  <2>1. Written \in Flash /\ data_read \in Nat
    BY <1>1, <1>2, WrittenTyped DEF TypeOK, FILE_BUFF_LEN
  <2>2. QED
    BY <2>1, <1>1, OperationTyped
<1>4. ~flash_err' => \A u \in Units : u < data_written + data_read => flash'[u] = TheFile.unit[u]
  <2> SUFFICES ASSUME ~flash_err', NEW u \in Units, u < data_written + data_read
               PROVE  Written[u] = TheFile.unit[u]
    BY <1>3
  <2>1. CASE u < data_written
    BY <2>1, <1>1, <1>2, <1>3 DEF Written, LoopsAgree, Copying, Units
  <2>2. CASE ~(u < data_written)
    <3>1. u \in EraseRange(data_written) /\ data_written <= u
      BY <2>2, <1>2 DEF EraseRange, Units, FILE_BUFF_LEN
    <3>2. flash[u] = Erased
      BY <3>1, <1>1, <1>3 DEF LoopsAgree
    <3>3. QED
      BY <3>1, <3>2 DEF Written, Programmed
  <2>3. QED
    BY <2>1, <2>2
<1>5. TypeOK'
  <2>1. data_written' \in 0 .. FlashUnits /\ data_read' \in 0 .. FILE_BUFF_LEN
    BY <1>1, <1>2 DEF File, FILE_BUFF_LEN
  <2>2. pc' \in Pc
    BY DEF Pc
  <2>3. QED
    BY <1>3, <2>1, <2>2 DEF TypeOK, caller, dfu
<1>6. FileOpen'
  BY <1>1 DEF FileOpen, Opened, Copying, caller, IsBin
<1>7. LoopsAgree'
  <2>1. CASE data_read = FILE_BUFF_LEN
    <3>1. data_written' % PAGE_SIZE = 0 /\ pc' = "erase"
      BY <2>1, <1>1, <1>2, NextPage DEF FILE_BUFF_LEN, PAGE_SIZE
    <3>2. QED
      BY <3>1, <1>1, <1>2, <1>4 DEF LoopsAgree, Copying
  <2>2. CASE data_read # FILE_BUFF_LEN
    BY <2>2 DEF LoopsAgree, Copying
  <2>3. QED
    BY <2>1, <2>2
<1>8. ProgramCopied'
  BY <1>1 DEF ProgramCopied, Copying
<1>9. FlashedWhole' /\ SkippedEqual'
  <2>1. CASE pc' = "close" /\ ~file_err' /\ ~flash_err'
    <3>1. data_read = Left /\ data_read # FILE_BUFF_LEN
      BY <2>1, <1>1, <1>2
    <3>2. data_written + data_read = TheFile.size
      BY <3>1, <1>1, <1>2, LeftTyped DEF Copying, FILE_BUFF_LEN
    <3>3. QED
      BY <2>1, <3>2, <1>1, <1>4 DEF FlashedWhole, SkippedEqual, Holds
  <2>2. CASE ~(pc' = "close" /\ ~file_err' /\ ~flash_err')
    BY <2>2 DEF FlashedWhole, SkippedEqual
  <2>3. QED
    BY <2>1, <2>2
<1>10. QED
  BY <1>5, <1>6, <1>7, <1>8, <1>9

(* While no file is open there is nothing to be said but the types. *)
LEMMA NoFileInv == ASSUME TypeOK', pc' = "idle", data_written' = 0 PROVE LoaderInv'
  BY DEF LoaderInv, FileOpen, Opened, LoopsAgree, ProgramCopied, FlashedWhole,
         SkippedEqual, Copying

(* The steps of SearchBin. *)
LEMMA SearchLoaderInv == LoaderInv /\ SearchBin => LoaderInv'
<1> SUFFICES ASSUME LoaderInv, SearchBin PROVE LoaderInv'
  OBVIOUS
<1>1. TypeOK /\ pc \in {"idle", "opendir", "readdir"}
  BY DEF LoaderInv, SearchBin, Mount, OpenDir, ReadDir
<1>2. faults' \in 0 .. MaxFaults
  BY <1>1, FaultsTyped DEF SearchBin, Mount, OpenDir, ReadDir
<1>3. /\ UNCHANGED <<flash, drive, pulled, log, skip, file_err, flash_err, valid, data_written>>
      /\ UNCHANGED <<data_read, attached, dfu_initiated>>
  BY DEF SearchBin, Mount, OpenDir, ReadDir, caller, copy, dfu
<1>4. /\ pc' \in {"opendir", "readdir", "open", "return"}
      /\ result' \in FatfsResult
      /\ pc' = "return" => result' \in {"ABSENT", "ERROR"}
  BY <1>1 DEF TypeOK, FatfsResult, Answer, SearchBin, Mount, OpenDir, ReadDir
<1>5. at' \in Nat \ {0}
  BY <1>1 DEF TypeOK, SearchBin, Mount, OpenDir, ReadDir
<1>6. TypeOK'
  BY <1>1, <1>2, <1>3, <1>4, <1>5 DEF TypeOK, Pc
<1>7. FileOpen'
  <2>1. CASE Mount
    BY <2>1 DEF FileOpen, Opened, Copying, Mount, Answer
  <2>2. CASE OpenDir
    BY <2>2, <1>1 DEF FileOpen, Opened, Copying, OpenDir, Answer, LoaderInv
  <2>3. CASE ReadDir /\ pc' = "readdir"
    <3>1. at' = at + 1 /\ ~IsBin(drive[at]) /\ pc = "readdir" /\ at \in Nat \ {0}
      BY <2>3, <1>1 DEF ReadDir, Answer, TypeOK
    <3>2. \A i \in 1 .. at - 1 : ~IsBin(drive[i])
      BY <3>1 DEF LoaderInv, FileOpen
    <3>3. \A i \in 1 .. at' - 1 : ~IsBin(drive[i])
      BY <3>1, <3>2
    <3>4. QED
      BY <2>3, <1>3, <3>3 DEF FileOpen, Opened, Copying, IsBin
  <2>4. CASE ReadDir /\ pc' # "readdir"
    <3>1. at' = at /\ pc = "readdir" /\ pc' \in {"open", "return"}
      BY <2>4 DEF ReadDir, Answer
    <3>2. pc' = "open" => at <= Len(drive) /\ IsBin(drive[at])
      BY <2>4 DEF ReadDir, Answer
    <3>3. \A i \in 1 .. at - 1 : ~IsBin(drive[i])
      BY <3>1 DEF LoaderInv, FileOpen
    <3>4. QED
      BY <3>1, <3>2, <3>3, <1>3, <1>4 DEF FileOpen, Opened, Copying, IsBin
  <2>5. QED
    BY <2>1, <2>2, <2>3, <2>4 DEF SearchBin
<1>8. QED
  BY <1>1, <1>3, <1>4, <1>6, <1>7
  DEF LoaderInv, LoopsAgree, ProgramCopied, FlashedWhole, SkippedEqual, Copying

(* The remaining steps of LoadFAT. *)
LEMMA OpenFileLoaderInv == LoaderInv /\ OpenFile => LoaderInv'
<1> SUFFICES ASSUME LoaderInv, OpenFile PROVE LoaderInv'
  OBVIOUS
<1> USE DEF LoaderInv, OpenFile
<1>1. /\ pc = "open" /\ TheFile' = TheFile /\ file_err' = FALSE
      /\ pc' = "header" \/ (pc' = "return" /\ result' = "ERROR")
  BY DEF TheFile, caller, Answer
<1>2. TypeOK'
  <2>1. faults' \in 0 .. MaxFaults /\ log' \in {"none", "success", "error"}
    BY FaultsTyped, LogTyped
  <2>2. result' \in FatfsResult /\ pc' \in Pc
    BY DEF TypeOK, Answer, FatfsResult, Pc
  <2>3. QED
    BY <2>1, <2>2 DEF TypeOK, caller, copy, dfu
<1>3. FileOpen'
  BY <1>1 DEF FileOpen, Opened, Copying, caller, IsBin
<1>4. QED
  BY <1>1, <1>2, <1>3
  DEF LoopsAgree, ProgramCopied, FlashedWhole, SkippedEqual, Copying, caller, copy

LEMMA HeaderLoaderInv == LoaderInv /\ ReadHeader => LoaderInv'
<1> SUFFICES ASSUME LoaderInv, ReadHeader PROVE LoaderInv'
  OBVIOUS
<1> USE DEF LoaderInv, ReadHeader
<1>1. PICK c \in Header :
        /\ HeaderIs(c)
        /\ \/ c = "stack" /\ NotAProgram /\ UNCHANGED valid
           \/ c # "stack" /\ valid' = (c = "program") /\ pc' = "compare"
              /\ UNCHANGED <<log, result>>
  OBVIOUS
<1>2. /\ pc = "header" /\ TheFile' = TheFile /\ TheFile \in File /\ data_written = 0
      /\ pc' = "compare" \/ (pc' = "return" /\ result' = "ERROR")
  BY <1>1, OpenTyped DEF TheFile, caller, Answer, NotAProgram, LoopsAgree, Copying
<1>3. pc' = "compare" /\ valid' /\ ~file_err' /\ TheFile.size > 0
        => TheFile.unit[0] \in Programs \cup Stubs
  BY <1>1, <1>2 DEF HeaderIs, WholeHeader, Class, NotAProgram, Answer
<1>4. TypeOK'
  <2>1. faults' \in 0 .. MaxFaults
    BY <1>1, FaultsTyped DEF HeaderIs
  <2>2. file_err' \in BOOLEAN
    BY <1>1 DEF HeaderIs, TypeOK
  <2>3. valid' \in BOOLEAN
    BY <1>1 DEF TypeOK
  <2>4. log' \in {"none", "success", "error"}
    BY <1>1, LogTyped DEF NotAProgram
  <2>5. result' \in FatfsResult /\ pc' \in Pc
    BY <1>1 DEF TypeOK, Answer, NotAProgram, FatfsResult, Pc
  <2>6. QED
    BY <2>1, <2>2, <2>3, <2>4, <2>5 DEF TypeOK, caller, dfu
<1>5. FileOpen'
  BY <1>2 DEF FileOpen, Opened, Copying, caller, IsBin
<1>6. LoopsAgree'
  BY <1>2 DEF LoopsAgree, Copying, PAGE_SIZE, File, Units
<1>7. QED
  BY <1>2, <1>3, <1>4, <1>5, <1>6 DEF ProgramCopied, FlashedWhole, SkippedEqual, Copying

LEMMA CheckLoaderInv == LoaderInv /\ CheckDfu => LoaderInv'
<1> SUFFICES ASSUME LoaderInv, CheckDfu PROVE LoaderInv'
  OBVIOUS
<1> USE DEF LoaderInv, CheckDfu
<1>1. /\ pc = "check" /\ TheFile' = TheFile /\ TheFile \in File /\ data_written = 0
      /\ pc' = "erase" \/ (pc' = "return" /\ result' = "ABSENT")
      /\ UNCHANGED <<flash, data_written>>
  BY OpenTyped DEF TheFile, caller, copy, Answer, LoopsAgree, Copying
<1>2. result' \in FatfsResult /\ pc' \in Pc /\ attached' \in BOOLEAN
  BY DEF TypeOK, Answer, FatfsResult, Pc
<1>3. TypeOK' /\ FileOpen'
  BY <1>1, <1>2 DEF TypeOK, FileOpen, Opened, Copying, caller, copy, IsBin
<1>4. LoopsAgree'
  BY <1>1 DEF LoopsAgree, Copying, PAGE_SIZE, File, Units
<1>5. QED
  BY <1>1, <1>3, <1>4 DEF ProgramCopied, FlashedWhole, SkippedEqual, Copying

LEMMA ReadLoaderInv == LoaderInv /\ ReadPage => LoaderInv'
<1> SUFFICES ASSUME LoaderInv, ReadPage PROVE LoaderInv'
  OBVIOUS
<1> USE DEF LoaderInv, ReadPage
<1>1. PICK n \in 0 .. FILE_BUFF_LEN : ReadsUnits(n) /\ data_read' = n
  OBVIOUS
<1>2. /\ pc = "read" /\ pc' = "write" /\ TheFile' = TheFile
      /\ UNCHANGED <<flash, data_written>>
  BY DEF TheFile, caller
<1>3. n \in 0 .. Left /\ (n = Left \/ file_err') /\ Left' = Left
  BY <1>1, <1>2, LeftTyped DEF ReadsUnits, Copying, Left
<1>4. data_written + n <= TheFile.size
  BY <1>2, <1>3, LeftTyped DEF Copying
<1>5. TypeOK'
  <2>1. faults' \in 0 .. MaxFaults /\ file_err' \in BOOLEAN
    BY <1>1, ReadTyped
  <2>2. QED
    BY <1>1, <2>1 DEF TypeOK, caller, dfu, Pc
<1>6. FileOpen'
  BY <1>2 DEF FileOpen, Opened, Copying, caller, IsBin
<1>7. LoopsAgree'
  BY <1>1, <1>2, <1>3, <1>4 DEF LoopsAgree, Copying
<1>8. QED
  BY <1>2, <1>5, <1>6, <1>7 DEF ProgramCopied, FlashedWhole, SkippedEqual, Copying

LEMMA CloseLoaderInv == LoaderInv /\ CloseFile => LoaderInv'
<1> SUFFICES ASSUME LoaderInv, CloseFile PROVE LoaderInv'
  OBVIOUS
<1> USE DEF LoaderInv, CloseFile
<1>1. /\ pc = "close" /\ pc' = "return" /\ result' = "PRESENT" /\ TheFile' = TheFile
      /\ UNCHANGED <<flash, file_err, flash_err>>
  BY DEF TheFile, caller, Answer
<1>2. TypeOK'
  BY <1>1, LogTyped DEF TypeOK, caller, copy, dfu, FatfsResult, Pc
<1>3. FileOpen'
  BY <1>1 DEF FileOpen, Opened, Copying, caller, IsBin
<1>4. QED
  BY <1>1, <1>2, <1>3 DEF LoopsAgree, ProgramCopied, FlashedWhole, SkippedEqual, Holds, Copying

(* The loop acts on the answer, or the outside does something. *)
LEMMA ReturnLoaderInv == LoaderInv /\ Return => LoaderInv'
<1> SUFFICES ASSUME LoaderInv, Return PROVE LoaderInv'
  OBVIOUS
<1>1. TypeOK'
  <2>1. TypeOK
    BY DEF LoaderInv
  <2>2. skip' \in BOOLEAN /\ valid' = FALSE /\ pc' = "idle" /\ data_written' = 0 /\ data_read' = 0
    BY <2>1 DEF Return, Restarted, TypeOK
  <2>3. result' \in FatfsResult /\ at' \in Nat \ {0}
    BY <2>1 DEF Return, Restarted, TypeOK, FatfsResult
  <2>4. file_err' \in BOOLEAN /\ flash_err' \in BOOLEAN /\ attached' \in BOOLEAN /\ dfu_initiated' \in BOOLEAN
    BY <2>1, Zenon DEF Return, Restarted, TypeOK, dfu
  <2>5. data_written' \in 0 .. FlashUnits /\ data_read' \in 0 .. FILE_BUFF_LEN
    BY <2>2 DEF FILE_BUFF_LEN
  <2>6. /\ valid' \in BOOLEAN /\ pc' \in Pc
        /\ UNCHANGED <<flash, drive, pulled, log, faults>>
    BY <2>2, Zenon DEF Return, Pc
  <2>7. QED
    BY <2>1, <2>2, <2>3, <2>4, <2>5, <2>6 DEF TypeOK
<1>2. QED
  BY <1>1, NoFileInv DEF Return, Restarted

LEMMA ResetLoaderInv == LoaderInv /\ Reset => LoaderInv'
<1> SUFFICES ASSUME LoaderInv, Reset PROVE LoaderInv'
  OBVIOUS
<1>1. TypeOK
  BY DEF LoaderInv
<1>2. flash' \in Flash
  <2>1. data_written \in Nat /\ data_read \in Nat /\ flash \in Flash /\ PAGE_SIZE \in Nat
    BY <1>1 DEF TypeOK, PAGE_SIZE, FILE_BUFF_LEN
  <2>2. CASE pc = "erase" /\ flash' \in Torn(Erase(flash, data_written), PAGE_SIZE)
    BY <2>1, <2>2, EraseTyped, TornTyped
  <2>3. CASE pc = "write" /\ flash' \in Torn(Written, data_read)
    BY <2>1, <2>3, OpenTyped, WrittenTyped, TornTyped
  <2>4. QED
    BY <2>1, <2>2, <2>3 DEF Reset
<1>3. TypeOK'
  <2>1. faults' \in 0 .. MaxFaults
    BY <1>1 DEF Reset, Event, TypeOK
  <2>2. data_written' \in 0 .. FlashUnits /\ data_read' \in 0 .. FILE_BUFF_LEN
        /\ at' \in Nat \ {0} /\ result' \in FatfsResult /\ pc' \in Pc
    BY DEF Reset, Restarted, Pc, FatfsResult, FILE_BUFF_LEN
  <2>3. /\ skip' \in BOOLEAN /\ file_err' \in BOOLEAN /\ flash_err' \in BOOLEAN /\ valid' \in BOOLEAN
        /\ attached' \in BOOLEAN /\ dfu_initiated' \in BOOLEAN
    BY Zenon DEF Reset, Restarted
  <2>4. UNCHANGED <<drive, pulled, log>>
    BY DEF Reset
  <2>5. QED
    BY <1>1, <1>2, <2>1, <2>2, <2>3, <2>4 DEF TypeOK
<1>4. QED
  BY <1>3, NoFileInv DEF Reset, Restarted

LEMMA EventLoaderInv == LoaderInv /\ (PullDrive \/ PlugDrive \/ StartDownload) => LoaderInv'
<1> SUFFICES ASSUME LoaderInv, PullDrive \/ PlugDrive \/ StartDownload PROVE LoaderInv'
  OBVIOUS
<1> USE DEF LoaderInv
<1>1. faults' \in 0 .. MaxFaults
  BY DEF PullDrive, PlugDrive, StartDownload, Event, TypeOK
<1>2. CASE PullDrive \/ StartDownload
  <2>1. UNCHANGED <<flash, drive, log, pc, result, skip, at, file_err, flash_err>>
        /\ UNCHANGED <<copy, attached>>
        /\ pulled' \in BOOLEAN /\ dfu_initiated' \in BOOLEAN
    BY <1>2 DEF PullDrive, StartDownload, caller, dfu, TypeOK
  <2>2. TypeOK'
    BY <1>1, <2>1 DEF TypeOK, copy
  <2>3. FileOpen' /\ LoopsAgree'
    BY <2>1 DEF FileOpen, LoopsAgree, Opened, Copying, TheFile, Left, copy, IsBin
  <2>4. QED
    BY <2>1, <2>2, <2>3
    DEF ProgramCopied, FlashedWhole, SkippedEqual, Holds, Copying, TheFile, copy
<1>3. CASE PlugDrive
  <2>1. TypeOK' /\ pc' = "idle" /\ data_written' = 0
    BY <1>1, <1>3 DEF PlugDrive, TypeOK, copy, dfu, LoopsAgree, Copying
  <2>2. QED
    BY <2>1, NoFileInv
<1>4. QED
  BY <1>2, <1>3

(* No step breaks the invariant. *)
LEMMA NextLoaderInv == LoaderInv /\ [Next]_vars => LoaderInv'
<1> SUFFICES ASSUME LoaderInv, [Next]_vars PROVE LoaderInv'
  OBVIOUS
<1>1. CASE Next
  BY <1>1, SearchLoaderInv, OpenFileLoaderInv, HeaderLoaderInv, CompareLoaderInv,
     CheckLoaderInv, EraseLoaderInv, ReadLoaderInv, WriteLoaderInv, CloseLoaderInv,
     ReturnLoaderInv, ResetLoaderInv, EventLoaderInv
  DEF Next, Loop, LoadFAT, Outside
<1>2. CASE UNCHANGED vars
  BY <1>2 DEF vars, caller, copy, dfu, LoaderInv, TypeOK, FileOpen, Opened, LoopsAgree,
     ProgramCopied, FlashedWhole, SkippedEqual, Holds, Copying, TheFile, Left, IsBin
<1>3. QED
  BY <1>1, <1>2

(* The invariant holds in every reachable state. *)
THEOREM LoaderInvariant == Spec => []LoaderInv
<1>1. LoaderInv /\ [Next]_vars => LoaderInv'
  BY NextLoaderInv
<1>2. QED
  BY <1>1, InitLoaderInv, PTL DEF Spec

(* PRESENT says that the whole file is in the flash, unless a read or a flash operation
   failed. *)
THEOREM FlashedIsWhole == Spec => []FlashedWhole
<1>1. LoaderInv => FlashedWhole
  BY DEF LoaderInv
<1>2. QED
  BY <1>1, LoaderInvariant, PTL

(* A drive is ruled out without an error only for a file the flash begins with. *)
THEOREM SkippedIsEqual == Spec => []SkippedEqual
<1>1. LoaderInv => SkippedEqual
  BY DEF LoaderInv
<1>2. QED
  BY <1>1, LoaderInvariant, PTL

(* Only erases, writes and resets that cut them off change the flash. *)
LEMMA FlashChanges ==
  ASSUME LoaderInv, [Next]_vars, flash' # flash
  PROVE  /\ pc \in {"erase", "write"}
         /\ \A u \in Units : flash'[u] # flash[u] => u < data_written + PAGE_SIZE
<1> DEFINE erasing == pc = "erase" /\ (flash' = Erase(flash, data_written)
                                        \/ flash' \in Torn(Erase(flash, data_written), PAGE_SIZE))
           writing == pc = "write" /\ (flash' = Written \/ flash' \in Torn(Written, data_read))
<1>0. flash \in Flash /\ data_written \in Nat /\ data_read \in 0 .. PAGE_SIZE
      /\ PAGE_SIZE \in Nat
  BY DEF LoaderInv, TypeOK, FILE_BUFF_LEN, PAGE_SIZE
<1>1. erasing \/ writing
  <2>1. CASE ErasePage
    BY <2>1 DEF ErasePage, Operation
  <2>2. CASE WritePage
    BY <2>2 DEF WritePage, Operation
  <2>3. CASE Reset
    BY <2>3 DEF Reset
  <2>4. QED
    BY <2>1, <2>2, <2>3
    DEF Next, Loop, SearchBin, LoadFAT, Outside, Mount, OpenDir, ReadDir, OpenFile,
        ReadHeader, Compare, CheckDfu, ReadPage, CloseFile, Return, PullDrive,
        PlugDrive, StartDownload, vars
<1>2. ASSUME NEW u \in Units, flash'[u] # flash[u] PROVE u < data_written + PAGE_SIZE
  <2>1. CASE flash' = Erase(flash, data_written)
    BY <2>1, <1>0, <1>2 DEF Erase, EraseRange, PAGE_SIZE, Units
  <2>2. CASE flash' = Written
    BY <2>2, <1>0, <1>2 DEF Written, Units
  <2>3. CASE flash' \in Torn(Erase(flash, data_written), PAGE_SIZE)
    BY <2>3, <1>0, <1>2, TornKeeps
  <2>4. CASE flash' \in Torn(Written, data_read)
    <3>1. u < data_written + data_read
      BY <2>4, <1>0, <1>2, TornKeeps
    <3>2. QED
      BY <3>1, <1>0 DEF Units
  <2>5. QED
    BY <1>1, <2>1, <2>2, <2>3, <2>4
<1>3. QED
  BY <1>1, <1>2

(* No load, finished or cut off, reaches behind the last page of its file. *)
THEOREM LoadsKeepToTheirPages == Spec => OnlyFilePages
<1>1. LoaderInv /\ [Next]_vars
      => [\A u \in Units : flash'[u] # flash[u] => u < Touched]_vars
  <2> SUFFICES ASSUME LoaderInv, Next, NEW u \in Units, flash'[u] # flash[u]
               PROVE  u < Touched
    OBVIOUS
  <2>1. pc \in {"erase", "write"} /\ u < data_written + PAGE_SIZE
    BY FlashChanges
  <2>2. /\ TheFile \in File /\ data_written \in Nat
        /\ data_written <= TheFile.size /\ data_written % PAGE_SIZE = 0
    BY <2>1, OpenTyped DEF LoaderInv, LoopsAgree, Copying, TypeOK
  <2>3. data_written + PAGE_SIZE <= Touched
    BY <2>2, LastPage DEF Touched, File
  <2>4. Touched \in Int /\ data_written + PAGE_SIZE \in Int
    BY <2>2 DEF Touched, File, PAGE_SIZE
  <2>5. QED
    BY <2>1, <2>3, <2>4 DEF Units
<1>2. QED
  BY <1>1, LoaderInvariant, PTL DEF Spec, OnlyFilePages

(* What has the header of no program never gets into the flash; a file too short for
   a header may. *)
THEOREM LoadsOnlyPrograms == Spec => OnlyPrograms
<1>1. LoaderInv /\ [Next]_vars
      => [flash' # flash => /\ TheFile.size > 0
                            /\ TheFile.unit[0] \in Programs \cup Stubs]_vars
  BY FlashChanges DEF LoaderInv, ProgramCopied, Copying
<1>2. QED
  BY <1>1, LoaderInvariant, PTL DEF Spec, OnlyPrograms

(* The log speaks the truth of every file that could be read and written. *)
THEOREM LogIsTrue == Spec => LogTruth
<1>1. LoaderInv /\ [Next]_vars
      => [log' # log /\ log' = "success" => Holds(TheFile) \/ file_err \/ flash_err]_vars
  <2> SUFFICES ASSUME LoaderInv, Next, log' # log, log' = "success"
               PROVE  Holds(TheFile) \/ file_err \/ flash_err
    OBVIOUS
  <2>1. CloseFile
    BY DEF Next, Loop, SearchBin, LoadFAT, Outside, Mount, OpenDir, ReadDir, OpenFile,
      ReadHeader, NotAProgram, UpdateLog, Compare, CheckDfu, ErasePage, ReadPage,
      WritePage, Return, PullDrive, PlugDrive, StartDownload, Reset
  <2>2. QED
    BY <2>1 DEF CloseFile, LoaderInv, FlashedWhole
<1>2. QED
  BY <1>1, LoaderInvariant, PTL DEF Spec, LogTruth
=============================================================================
