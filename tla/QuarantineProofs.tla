--------------------------- MODULE QuarantineProofs ---------------------------
(***************************************************************************)
(* Quarantine, for every set of files, ids and handlers: a file is lost    *)
(* only to retention or to what a restore puts over it, and every active   *)
(* row still backs what it lists.                                          *)
(***************************************************************************)
EXTENDS Quarantine, TLAPS

\* In the middle of synchronous file calls.
ClSync(c) == cl[c].at \in {"copying", "unlinking", "meta"}
RsSync(r) == rs[r].at \in {"copying", "unlinking"}

\* What is at a path was written to it, and what was taken had been written.
DiskFaithful ==
    /\ \A p \in Path : disk[p] \in Body => HomeOf[disk[p]] = p /\ disk[p] \in born
    /\ \A q \in Qid : taken[q] \in Body => taken[q] \in born

\* An unused id has nothing; a used one never holds a complete foreign file.
TakenFaithful ==
    \A q \in Qid :
        /\ taken[q] = Nil => qfile[q] = NoFile /\ meta[q] = Nil /\ row[q] = "none"
        /\ qfile[q] \in Body => qfile[q] = taken[q]

\* meta.json exists only once the move is complete, and names the origin of a
\* whole file.
MetaFaithful ==
    \A q \in Qid : meta[q] # Nil =>
        /\ taken[q] # Nil
        /\ taken[q] \in Body => meta[q] = HomeOf[taken[q]]
        /\ qfile[q] \in {taken[q], NoFile}

\* An active row has its meta.json.
RowBacked == \A q \in Qid : row[q] = "active" => meta[q] # Nil

\* The event loop runs one synchronous section at a time.
Exclusive ==
    /\ \A c, d \in Cleaner : ClSync(c) /\ ClSync(d) => c = d
    /\ \A r, s \in Restorer : RsSync(r) /\ RsSync(s) => r = s
    /\ \A c \in Cleaner, r \in Restorer : ~(ClSync(c) /\ RsSync(r))

\* What a cleaner has done so far; no two of them work on one id.
CleanersOK ==
    /\ \A c, d \in Cleaner : cl[c].at # "idle" /\ cl[d].at # "idle" /\ cl[c].q = cl[d].q => c = d
    /\ \A c \in Cleaner : cl[c].at # "idle" =>
        /\ cl[c].q \in Qid /\ cl[c].p \in Path
        /\ row[cl[c].q] = "none"
        /\ taken[cl[c].q] # Nil
        /\ taken[cl[c].q] \in Body => cl[c].p = HomeOf[taken[cl[c].q]]
        /\ cl[c].at = "copying" => /\ qfile[cl[c].q] = Torn
                                   /\ disk[cl[c].p] = taken[cl[c].q]
        /\ cl[c].at = "unlinking" => /\ qfile[cl[c].q] = taken[cl[c].q]
                                     /\ disk[cl[c].p] = taken[cl[c].q]
        /\ cl[c].at = "meta" => qfile[cl[c].q] = taken[cl[c].q]
        /\ IF cl[c].at = "insert" THEN meta[cl[c].q] = cl[c].p ELSE meta[cl[c].q] = Nil

\* What a restore has done so far.  Several may work on one id, one at a time
\* in its file calls.
RestorersOK ==
    \A r \in Restorer : rs[r].at # "idle" =>
        /\ rs[r].q \in Qid /\ row[rs[r].q] # "none"
        /\ rs[r].at = "copying" => /\ meta[rs[r].q] # Nil /\ qfile[rs[r].q] # NoFile
                                   /\ disk[meta[rs[r].q]] = Torn
        /\ rs[r].at = "unlinking" => /\ meta[rs[r].q] # Nil /\ qfile[rs[r].q] # NoFile
                                     /\ disk[meta[rs[r].q]] = qfile[rs[r].q]
        /\ rs[r].at \in {"update", "rmtree"} => qfile[rs[r].q] = NoFile
        /\ rs[r].at = "rmtree" => row[rs[r].q] \in {"restored", "deleted"}

\* Retention only ever names expired entries that had a row.
RetentionOK == \A q \in rt.todo \cup rt.gone : row[q] # "none" /\ q \in expired

\* Custody is inductive only with all of the above: a restore's last unlink is
\* safe because the path holds its body, which nothing can change while the
\* restore is in synchronous code; and that is Exclusive.
IInv == /\ TypeOK /\ DiskFaithful /\ TakenFaithful /\ MetaFaithful /\ RowBacked
        /\ Exclusive /\ CleanersOK /\ RestorersOK /\ RetentionOK /\ Custody

\* The start: nothing is in quarantine and nothing runs.
LEMMA InitIInv == ASSUME Init PROVE IInv
  BY ConstantAssumption DEF Init, IInv, TypeOK, File, DiskFaithful, TakenFaithful,
     MetaFaithful, RowBacked, Exclusive, ClSync, RsSync, CleanersOK, RestorersOK,
     RetentionOK, Custody, OnDisk, IdleCl, IdleRs, IdleRt

\* The move is a rename: the body goes from its path to the fresh entry at once.
LEMMA QuarantineRenameKeeps ==
  ASSUME IInv, NEW c \in Cleaner, NEW p \in Path, NEW q \in Qid, QuarantineRename(c, p, q)
  PROVE  IInv'
<1>1. TypeOK'
  BY DEF IInv, TypeOK, File, QuarantineRename, Take, hist
<1>2. DiskFaithful'
  BY ConstantAssumption DEF IInv, DiskFaithful, QuarantineRename, Take, hist
<1>3. TakenFaithful'
  BY ConstantAssumption DEF IInv, TypeOK, File, TakenFaithful, QuarantineRename, Take
<1>4. MetaFaithful'
  BY ConstantAssumption DEF IInv, MetaFaithful, QuarantineRename, Take
<1>5. Exclusive'
  BY DEF Exclusive, ClSync, RsSync, LoopFree, QuarantineRename, Take
<1>6. CleanersOK'
  BY ConstantAssumption DEF IInv, TypeOK, File, CleanersOK, Exclusive, ClSync,
     RsSync, DiskFaithful, TakenFaithful, MetaFaithful, RestorersOK, RetentionOK,
     LoopFree, IdleCl, QuarantineRename, Take, files, hist
<1>7. RestorersOK'
  BY DEF IInv, RestorersOK, TakenFaithful, LoopFree, QuarantineRename, Take
<1>8. Custody'
  BY ConstantAssumption DEF IInv, TypeOK, Custody, OnDisk, Held, TakenFaithful,
     QuarantineRename, Take, hist
<1>9. (RowBacked /\ RetentionOK)'
  BY DEF IInv, RowBacked, RetentionOK, QuarantineRename
<1>10. QED
  BY <1>1, <1>2, <1>3, <1>4, <1>5, <1>6, <1>7, <1>8, <1>9 DEF IInv

\* The move is a copy: the fresh entry is torn, the original stays.
LEMMA QuarantineCopyKeeps ==
  ASSUME IInv, NEW c \in Cleaner, NEW p \in Path, NEW q \in Qid, QuarantineCopy(c, p, q)
  PROVE  IInv'
<1>1. TypeOK'
  BY DEF IInv, TypeOK, File, QuarantineCopy, Take, hist
<1>2. DiskFaithful'
  BY DEF IInv, DiskFaithful, QuarantineCopy, Take, hist
<1>3. TakenFaithful'
  BY ConstantAssumption DEF IInv, TypeOK, File, TakenFaithful, QuarantineCopy, Take
<1>4. MetaFaithful'
  BY ConstantAssumption DEF IInv, MetaFaithful, QuarantineCopy, Take
<1>5. Exclusive'
  BY DEF Exclusive, ClSync, RsSync, LoopFree, QuarantineCopy, Take
<1>6. CleanersOK'
  BY ConstantAssumption DEF IInv, TypeOK, File, CleanersOK, Exclusive, ClSync,
     RsSync, DiskFaithful, TakenFaithful, MetaFaithful, RestorersOK, RetentionOK,
     LoopFree, IdleCl, QuarantineCopy, Take, files, hist
<1>7. RestorersOK'
  BY DEF IInv, RestorersOK, TakenFaithful, QuarantineCopy, Take
<1>8. Custody'
  BY ConstantAssumption DEF IInv, TypeOK, Custody, OnDisk, Held, TakenFaithful,
     QuarantineCopy, Take, hist
<1>9. (RowBacked /\ RetentionOK)'
  BY DEF IInv, RowBacked, RetentionOK, QuarantineCopy
<1>10. QED
  BY <1>1, <1>2, <1>3, <1>4, <1>5, <1>6, <1>7, <1>8, <1>9 DEF IInv

\* The copy is complete: the body is in both places.
LEMMA QuarantineCopiedKeeps ==
  ASSUME IInv, NEW c \in Cleaner, QuarantineCopied(c)
  PROVE  IInv'
<1>1. TypeOK'
  BY DEF IInv, TypeOK, CleanersOK, QuarantineCopied, hist
<1>2. TakenFaithful'
  BY ConstantAssumption DEF IInv, TakenFaithful, CleanersOK, QuarantineCopied
<1>3. MetaFaithful'
  BY DEF IInv, MetaFaithful, CleanersOK, QuarantineCopied
<1>4. Exclusive'
  BY DEF IInv, Exclusive, ClSync, RsSync, QuarantineCopied
<1>5. CleanersOK'
  BY ConstantAssumption DEF IInv, TypeOK, File, CleanersOK, Exclusive, ClSync,
     RsSync, DiskFaithful, TakenFaithful, MetaFaithful, RestorersOK, RetentionOK,
     LoopFree, IdleCl, QuarantineCopied, files, hist
<1>6. RestorersOK'
  BY DEF IInv, RestorersOK, CleanersOK, QuarantineCopied
<1>7. Custody'
  BY ConstantAssumption DEF IInv, TypeOK, Custody, OnDisk, Held, CleanersOK,
     QuarantineCopied, hist
<1>8. (DiskFaithful /\ RowBacked /\ RetentionOK)'
  BY DEF IInv, DiskFaithful, RowBacked, RetentionOK, QuarantineCopied, hist
<1>9. QED
  BY <1>1, <1>2, <1>3, <1>4, <1>5, <1>6, <1>7, <1>8 DEF IInv

\* The original goes: the entry holds the body.
LEMMA QuarantineUnlinkKeeps ==
  ASSUME IInv, NEW c \in Cleaner, QuarantineUnlink(c)
  PROVE  IInv'
<1>1. TypeOK'
  BY DEF IInv, TypeOK, File, CleanersOK, QuarantineUnlink, hist
<1>2. DiskFaithful'
  BY ConstantAssumption DEF IInv, DiskFaithful, QuarantineUnlink, hist
<1>3. Exclusive'
  BY DEF IInv, Exclusive, ClSync, RsSync, QuarantineUnlink
<1>4. CleanersOK'
  BY ConstantAssumption DEF IInv, TypeOK, File, CleanersOK, Exclusive, ClSync,
     RsSync, DiskFaithful, TakenFaithful, MetaFaithful, RestorersOK, RetentionOK,
     LoopFree, IdleCl, QuarantineUnlink, files, hist
<1>5. RestorersOK'
  BY DEF IInv, RestorersOK, Exclusive, ClSync, RsSync, QuarantineUnlink
<1>6. Custody'
  BY DEF IInv, Custody, OnDisk, Held, CleanersOK, QuarantineUnlink, hist
<1>7. (TakenFaithful /\ MetaFaithful /\ RowBacked /\ RetentionOK)'
  BY DEF IInv, TakenFaithful, MetaFaithful, RowBacked, RetentionOK, QuarantineUnlink
<1>8. QED
  BY <1>1, <1>2, <1>3, <1>4, <1>5, <1>6, <1>7 DEF IInv

\* meta.json is written for the entry this cleaner alone works on.
LEMMA QuarantineMetaKeeps ==
  ASSUME IInv, NEW c \in Cleaner, QuarantineMeta(c)
  PROVE  IInv'
<1>1. TypeOK'
  BY DEF IInv, TypeOK, CleanersOK, QuarantineMeta, hist
<1>2. TakenFaithful'
  BY ConstantAssumption DEF IInv, TakenFaithful, CleanersOK, QuarantineMeta
<1>3. MetaFaithful'
  BY DEF IInv, MetaFaithful, CleanersOK, QuarantineMeta
<1>4. RowBacked'
  BY DEF IInv, RowBacked, CleanersOK, QuarantineMeta
<1>5. Exclusive'
  BY DEF IInv, Exclusive, ClSync, RsSync, QuarantineMeta
<1>6. CleanersOK'
  BY ConstantAssumption DEF IInv, TypeOK, File, CleanersOK, Exclusive, RsSync,
     DiskFaithful, RetentionOK, LoopFree, IdleCl, QuarantineMeta, files, hist
<1>7. RestorersOK'
  BY DEF IInv, RestorersOK, Exclusive, ClSync, RsSync, QuarantineMeta
<1>8. (DiskFaithful /\ RetentionOK /\ Custody)'
  BY DEF IInv, DiskFaithful, RetentionOK, Custody, QuarantineMeta, hist, OnDisk, Held
<1>9. QED
  BY <1>1, <1>2, <1>3, <1>4, <1>5, <1>6, <1>7, <1>8 DEF IInv

\* The row appears: meta.json, written before, backs it.
LEMMA QuarantineInsertKeeps ==
  ASSUME IInv, NEW c \in Cleaner, QuarantineInsert(c)
  PROVE  IInv'
<1>1. TypeOK'
  BY DEF IInv, TypeOK, IdleCl, QuarantineInsert, files, hist
<1>2. TakenFaithful'
  BY ConstantAssumption DEF IInv, TakenFaithful, CleanersOK, QuarantineInsert, files
<1>3. RowBacked'
  BY ConstantAssumption DEF IInv, RowBacked, CleanersOK, QuarantineInsert, files
<1>4. Exclusive'
  BY DEF IInv, Exclusive, ClSync, RsSync, IdleCl, QuarantineInsert
<1>5. CleanersOK'
  BY DEF IInv, TypeOK, CleanersOK, IdleCl, QuarantineInsert, files, hist
<1>6. RestorersOK'
  BY DEF IInv, RestorersOK, CleanersOK, QuarantineInsert, files
<1>7. RetentionOK'
  BY DEF IInv, RetentionOK, QuarantineInsert
<1>8. (DiskFaithful /\ MetaFaithful /\ Custody)'
  BY DEF IInv, DiskFaithful, MetaFaithful, Custody, QuarantineInsert, files, hist,
     OnDisk, Held
<1>9. QED
  BY <1>1, <1>2, <1>3, <1>4, <1>5, <1>6, <1>7, <1>8 DEF IInv

\* A cleanup gives up: the files stay as they are.
LEMMA QuarantineFailsKeeps ==
  ASSUME IInv, NEW c \in Cleaner, QuarantineFails(c)
  PROVE  IInv'
<1>1. TypeOK'
  BY DEF IInv, TypeOK, IdleCl, QuarantineFails, files, hist
<1>2. Exclusive'
  BY DEF IInv, Exclusive, ClSync, RsSync, IdleCl, QuarantineFails
<1>3. CleanersOK'
  BY DEF IInv, CleanersOK, IdleCl, QuarantineFails, files
<1>4. (DiskFaithful /\ TakenFaithful /\ MetaFaithful /\ RowBacked /\ RestorersOK /\
      RetentionOK /\ Custody)'
  BY DEF IInv, DiskFaithful, TakenFaithful, MetaFaithful, RowBacked, RestorersOK,
     RetentionOK, Custody, QuarantineFails, files, hist, OnDisk, Held
<1>5. QED
  BY <1>1, <1>2, <1>3, <1>4 DEF IInv

\* The move back is a rename, over whatever is at the path.
LEMMA RestoreRenameKeeps ==
  ASSUME IInv, NEW r \in Restorer, NEW q \in Qid, RestoreRename(r, q)
  PROVE  IInv'
<1>1. TypeOK'
  BY DEF IInv, TypeOK, File, RestoreRename, RestoreBegin, Overwritten
<1>2. DiskFaithful'
  BY ConstantAssumption DEF IInv, DiskFaithful, MetaFaithful, RestoreRename
<1>3. TakenFaithful'
  BY ConstantAssumption DEF IInv, TakenFaithful, RestoreRename
<1>4. MetaFaithful'
  BY DEF IInv, MetaFaithful, RestoreRename
<1>5. Exclusive'
  BY DEF IInv, Exclusive, ClSync, RsSync, RestoreRename
<1>6. CleanersOK'
  BY DEF IInv, CleanersOK, RetentionOK, LoopFree, RestoreRename, RestoreBegin
<1>7. RestorersOK'
  BY DEF IInv, TypeOK, RestorersOK, RetentionOK, LoopFree, RestoreRename, RestoreBegin
<1>8. Custody'
  <2>1. \A b \in Body : /\ OnDisk(b) => OnDisk(b)' \/ Held(b)' \/ b \in Overwritten(q)
                        /\ Held(b) => Held(b)' \/ OnDisk(b)'
    BY DEF IInv, TypeOK, MetaFaithful, OnDisk, Held, RestoreRename, RestoreBegin, Overwritten
  <2>2. Overwritten(q) \subseteq replaced' \cup spoiled'
    BY DEF IInv, TypeOK, File, RestoreRename, RestoreBegin
  <2>3. born' = born /\ purged' = purged /\ replaced \subseteq replaced' /\ spoiled \subseteq spoiled'
    BY DEF RestoreRename, RestoreBegin
  <2> QED
    BY <2>1, <2>2, <2>3 DEF IInv, TypeOK, Custody
<1>9. (RowBacked /\ RetentionOK)'
  BY DEF IInv, RowBacked, RetentionOK, RestoreRename
<1>10. QED
  BY <1>1, <1>2, <1>3, <1>4, <1>5, <1>6, <1>7, <1>8, <1>9 DEF IInv

\* The move back is a copy: the path is torn, the entry keeps the body.
LEMMA RestoreCopyKeeps ==
  ASSUME IInv, NEW r \in Restorer, NEW q \in Qid, RestoreCopy(r, q)
  PROVE  IInv'
<1>1. TypeOK'
  BY DEF IInv, TypeOK, File, RestoreCopy, RestoreBegin, Overwritten
<1>2. DiskFaithful'
  BY ConstantAssumption DEF IInv, DiskFaithful, RestoreCopy
<1>3. Exclusive'
  BY DEF Exclusive, ClSync, RsSync, LoopFree, RestoreCopy, RestoreBegin
<1>4. CleanersOK'
  BY DEF IInv, CleanersOK, LoopFree, RestoreCopy, RestoreBegin
<1>5. RestorersOK'
  BY DEF IInv, TypeOK, RestorersOK, LoopFree, RestoreCopy, RestoreBegin
<1>6. Custody'
  <2>1. \A b \in Body : /\ Held(b)' <=> Held(b)
                        /\ OnDisk(b) => OnDisk(b)' \/ Held(b) \/ b \in Overwritten(q)
    BY DEF IInv, TypeOK, OnDisk, Held, RestoreCopy, Overwritten
  <2>2. Overwritten(q) \subseteq replaced' \cup spoiled'
    BY DEF IInv, TypeOK, File, RestoreCopy, RestoreBegin
  <2>3. born' = born /\ purged' = purged /\ replaced \subseteq replaced' /\ spoiled \subseteq spoiled'
    BY DEF RestoreCopy, RestoreBegin
  <2> QED
    BY <2>1, <2>2, <2>3 DEF IInv, TypeOK, Custody
<1>7. (TakenFaithful /\ MetaFaithful /\ RowBacked /\ RetentionOK)'
  BY DEF IInv, TakenFaithful, MetaFaithful, RowBacked, RetentionOK, RestoreCopy
<1>8. QED
  BY <1>1, <1>2, <1>3, <1>4, <1>5, <1>6, <1>7 DEF IInv

\* The copy back is complete.
LEMMA RestoreCopiedKeeps ==
  ASSUME IInv, NEW r \in Restorer, RestoreCopied(r)
  PROVE  IInv'
<1>1. TypeOK'
  BY DEF IInv, TypeOK, RestorersOK, RetentionOK, RestoreCopied, hist
<1>2. DiskFaithful'
  BY DEF IInv, DiskFaithful, MetaFaithful, RestorersOK, RestoreCopied, hist
<1>3. Exclusive'
  BY DEF IInv, Exclusive, ClSync, RsSync, RestoreCopied
<1>4. CleanersOK'
  BY DEF IInv, CleanersOK, Exclusive, ClSync, RsSync, RestoreCopied
<1>5. RestorersOK'
  BY DEF IInv, TypeOK, RestorersOK, Exclusive, RsSync, RestoreCopied, hist
<1>6. Custody'
  BY ConstantAssumption DEF IInv, TypeOK, Custody, OnDisk, Held, RestorersOK,
     RestoreCopied, hist
<1>7. (TakenFaithful /\ MetaFaithful /\ RowBacked /\ RetentionOK)'
  BY DEF IInv, TakenFaithful, MetaFaithful, RowBacked, RetentionOK, RestoreCopied
<1>8. QED
  BY <1>1, <1>2, <1>3, <1>4, <1>5, <1>6, <1>7 DEF IInv

\* The entry's file goes: the body is at its path.
LEMMA RestoreUnlinkKeeps ==
  ASSUME IInv, NEW r \in Restorer, RestoreUnlink(r)
  PROVE  IInv'
<1>1. TypeOK'
  BY DEF IInv, TypeOK, File, RestorersOK, RestoreUnlink, hist
<1>2. TakenFaithful'
  BY ConstantAssumption DEF IInv, TakenFaithful, RestoreUnlink
<1>3. MetaFaithful'
  BY DEF IInv, MetaFaithful, RestoreUnlink
<1>4. Exclusive'
  BY DEF IInv, Exclusive, ClSync, RsSync, RestoreUnlink
<1>5. CleanersOK'
  BY DEF IInv, CleanersOK, Exclusive, ClSync, RsSync, RestoreUnlink
<1>6. RestorersOK'
  BY DEF IInv, TypeOK, RestorersOK, Exclusive, RsSync, RetentionOK, RestoreUnlink,
     hist
<1>7. Custody'
  BY DEF IInv, TypeOK, Custody, OnDisk, Held, DiskFaithful, RestorersOK,
     RestoreUnlink, hist
<1>8. (DiskFaithful /\ RowBacked /\ RetentionOK)'
  BY DEF IInv, DiskFaithful, RowBacked, RetentionOK, RestoreUnlink, hist
<1>9. QED
  BY <1>1, <1>2, <1>3, <1>4, <1>5, <1>6, <1>7, <1>8 DEF IInv

\* The row is marked restored, unless retention has deleted it.
LEMMA RestoreUpdateKeeps ==
  ASSUME IInv, NEW r \in Restorer, RestoreUpdate(r)
  PROVE  IInv'
<1>1. TypeOK'
  BY DEF IInv, TypeOK, RestorersOK, RestoreUpdate, files, hist
<1>2. TakenFaithful'
  BY DEF IInv, TakenFaithful, RestoreUpdate, files
<1>3. RowBacked'
  BY DEF IInv, RowBacked, RestoreUpdate, files
<1>4. Exclusive'
  BY DEF IInv, Exclusive, ClSync, RsSync, RestoreUpdate
<1>5. CleanersOK'
  BY DEF IInv, CleanersOK, RestoreUpdate, files
<1>6. RestorersOK'
  BY DEF IInv, TypeOK, RestorersOK, RetentionOK, RestoreUpdate, WriteLocked, files
<1>7. RetentionOK'
  BY DEF IInv, RetentionOK, RestoreUpdate
<1>8. (DiskFaithful /\ MetaFaithful /\ Custody)'
  BY DEF IInv, DiskFaithful, MetaFaithful, Custody, RestoreUpdate, files, hist,
     OnDisk, Held
<1>9. QED
  BY <1>1, <1>2, <1>3, <1>4, <1>5, <1>6, <1>7, <1>8 DEF IInv

\* The directory of a restored entry goes, with nothing left in it.
LEMMA RestoreRmtreeKeeps ==
  ASSUME IInv, NEW r \in Restorer, RestoreRmtree(r)
  PROVE  IInv'
<1>1. TypeOK'
  BY DEF IInv, TypeOK, File, IdleRs, CleanersOK, RestoreRmtree, hist
<1>2. TakenFaithful'
  BY ConstantAssumption DEF IInv, TypeOK, TakenFaithful, MetaFaithful, RestoreRmtree
<1>3. MetaFaithful'
  BY DEF IInv, TypeOK, MetaFaithful, RestoreRmtree
<1>4. RowBacked'
  BY DEF IInv, TypeOK, RowBacked, RestorersOK, RestoreRmtree
<1>5. Exclusive'
  BY DEF Exclusive, ClSync, RsSync, LoopFree, RestoreRmtree
<1>6. CleanersOK'
  BY ConstantAssumption DEF IInv, TypeOK, File, CleanersOK, Exclusive, DiskFaithful,
     RestorersOK, RetentionOK, LoopFree, IdleCl, RestoreRmtree, files, hist
<1>7. RestorersOK'
  BY DEF IInv, TypeOK, RestorersOK, LoopFree, IdleRs, RestoreRmtree
<1>8. Custody'
  BY DEF IInv, TypeOK, Custody, OnDisk, Held, RestorersOK, RestoreRmtree, hist
<1>9. (DiskFaithful /\ RetentionOK)'
  BY DEF IInv, DiskFaithful, RetentionOK, RestoreRmtree, hist
<1>10. QED
  BY <1>1, <1>2, <1>3, <1>4, <1>5, <1>6, <1>7, <1>8, <1>9 DEF IInv

\* A restore gives up: the files stay as they are.
LEMMA RestoreFailsKeeps ==
  ASSUME IInv, NEW r \in Restorer, RestoreFails(r)
  PROVE  IInv'
<1>1. TypeOK'
  BY DEF IInv, TypeOK, IdleRs, RestoreFails, files, hist
<1>2. Exclusive'
  BY DEF IInv, Exclusive, ClSync, RsSync, IdleRs, RestoreFails
<1>3. RestorersOK'
  BY DEF IInv, RestorersOK, IdleRs, RestoreFails, files
<1>4. (DiskFaithful /\ TakenFaithful /\ MetaFaithful /\ RowBacked /\ CleanersOK /\
      RetentionOK /\ Custody)'
  BY DEF IInv, DiskFaithful, TakenFaithful, MetaFaithful, RowBacked, CleanersOK,
     RetentionOK, Custody, RestoreFails, files, hist, OnDisk, Held
<1>5. QED
  BY <1>1, <1>2, <1>3, <1>4 DEF IInv

\* Retention reads which entries are expired.
LEMMA RetentionListKeeps ==
  ASSUME IInv, RetentionList
  PROVE  IInv'
<1>1. TypeOK'
  BY DEF IInv, TypeOK, RetentionList, Expired, files, hist
<1>2. RetentionOK'
  BY DEF RetentionOK, Expired, RetentionList
<1>3. (DiskFaithful /\ TakenFaithful /\ MetaFaithful /\ RowBacked /\ Exclusive /\
      CleanersOK /\ RestorersOK /\ Custody)'
  BY DEF IInv, DiskFaithful, TakenFaithful, MetaFaithful, RowBacked, Exclusive,
     CleanersOK, RestorersOK, Custody, RetentionList, files, hist, OnDisk, Held,
     ClSync, RsSync
<1>4. QED
  BY <1>1, <1>2, <1>3 DEF IInv

\* A row is deleted, not yet committed.
LEMMA RetentionDeleteKeeps ==
  ASSUME IInv, NEW q \in Qid, RetentionDelete(q)
  PROVE  IInv'
<1>1. TypeOK'
  <2>1. rt.gone \cup {q} \in SUBSET Qid
    BY DEF IInv, TypeOK
  <2>2. rt' \in [at : {"idle", "delete", "unlink"}, todo : SUBSET Qid, gone : SUBSET Qid, due : SUBSET Qid]
    BY <2>1 DEF IInv, TypeOK, RetentionDelete
  <2>3. QED
    BY <2>2 DEF IInv, TypeOK, RetentionDelete, files, hist
<1>2. RetentionOK'
  BY DEF IInv, RetentionOK, RetentionDelete
<1>3. (DiskFaithful /\ TakenFaithful /\ MetaFaithful /\ RowBacked /\ Exclusive /\
      CleanersOK /\ RestorersOK /\ Custody)'
  BY DEF IInv, DiskFaithful, TakenFaithful, MetaFaithful, RowBacked, Exclusive,
     CleanersOK, RestorersOK, Custody, RetentionDelete, files, hist, OnDisk, Held,
     ClSync, RsSync
<1>4. QED
  BY <1>1, <1>2, <1>3 DEF IInv

\* An expired entry's file goes; if it was the last copy it counts as purged.
LEMMA RetentionUnlinkKeeps ==
  ASSUME IInv, NEW q \in Qid, RetentionUnlink(q)
  PROVE  IInv'
<1>1. TypeOK'
  BY DEF IInv, TypeOK, File, RestorersOK, RetentionOK, RetentionUnlink, files, hist,
     LastCopy
<1>2. TakenFaithful'
  BY ConstantAssumption DEF IInv, TypeOK, TakenFaithful, RetentionUnlink
<1>3. MetaFaithful'
  BY DEF IInv, TypeOK, MetaFaithful, RetentionUnlink
<1>4. CleanersOK'
  BY DEF IInv, TypeOK, CleanersOK, RetentionOK, RetentionUnlink
<1>5. RestorersOK'
  BY DEF IInv, TypeOK, RestorersOK, LoopFree, RetentionUnlink
<1>6. RetentionOK'
  BY DEF IInv, RetentionOK, RetentionUnlink
<1>7. Custody'
  BY DEF IInv, TypeOK, Custody, OnDisk, Held, RetentionUnlink, LastCopy
<1>8. (DiskFaithful /\ RowBacked /\ Exclusive)'
  BY DEF IInv, DiskFaithful, RowBacked, Exclusive, RetentionUnlink, ClSync, RsSync
<1>9. QED
  BY <1>1, <1>2, <1>3, <1>4, <1>5, <1>6, <1>7, <1>8 DEF IInv

\* The deletes are committed.
LEMMA RetentionCommitKeeps ==
  ASSUME IInv, RetentionCommit
  PROVE  IInv'
<1>a. \A q \in Qid : /\ row'[q] = "none" <=> row[q] = "none"
                     /\ row'[q] \in {row[q], "deleted"}
  BY DEF IInv, RetentionOK, RetentionCommit
<1>1. TypeOK'
  BY DEF IInv, TypeOK, IdleRt, RetentionCommit, files, hist
<1>2. TakenFaithful'
  BY <1>a DEF IInv, TakenFaithful, RetentionCommit, files
<1>3. RowBacked'
  BY <1>a DEF IInv, RowBacked, RetentionCommit, files
<1>4. CleanersOK'
  BY <1>a DEF IInv, CleanersOK, RetentionCommit, files
<1>5. RestorersOK'
  BY <1>a DEF IInv, RestorersOK, RetentionCommit, files
<1>6. RetentionOK'
  BY DEF RetentionOK, IdleRt, RetentionCommit
<1>7. (DiskFaithful /\ MetaFaithful /\ Exclusive /\ Custody)'
  BY DEF IInv, DiskFaithful, MetaFaithful, Exclusive, Custody, RetentionCommit,
     files, hist, OnDisk, Held, ClSync, RsSync
<1>8. QED
  BY <1>1, <1>2, <1>3, <1>4, <1>5, <1>6, <1>7 DEF IInv

\* The deletes are rolled back.
LEMMA RetentionFailsKeeps ==
  ASSUME IInv, RetentionFails
  PROVE  IInv'
<1>1. TypeOK'
  BY DEF IInv, TypeOK, IdleRt, RetentionFails, files, hist
<1>2. RetentionOK'
  BY DEF RetentionOK, IdleRt, RetentionFails
<1>3. (DiskFaithful /\ TakenFaithful /\ MetaFaithful /\ RowBacked /\ Exclusive /\
      CleanersOK /\ RestorersOK /\ Custody)'
  BY DEF IInv, DiskFaithful, TakenFaithful, MetaFaithful, RowBacked, Exclusive,
     CleanersOK, RestorersOK, Custody, RetentionFails, files, hist, OnDisk, Held,
     ClSync, RsSync
<1>4. QED
  BY <1>1, <1>2, <1>3 DEF IInv

\* Another program writes a new body at a free path.
LEMMA AppWritesKeeps ==
  ASSUME IInv, NEW b \in Body, AppWrites(b)
  PROVE  IInv'
<1>1. TypeOK'
  BY DEF IInv, TypeOK, File, AppWrites
<1>2. DiskFaithful'
  BY DEF IInv, DiskFaithful, AppWrites
<1>3. CleanersOK'
  <2>1. \A c \in Cleaner : cl[c].at \in {"copying", "unlinking"} => cl[c].p # HomeOf[b]
    <3>1. \A q \in Qid : taken[q] # Nil => taken[q] # NoFile
      BY ConstantAssumption DEF IInv, TypeOK
    <3> QED
      BY <3>1 DEF IInv, CleanersOK, AppWrites
  <2> QED
    BY <2>1 DEF IInv, TypeOK, CleanersOK, AppWrites
<1>4. RestorersOK'
  BY ConstantAssumption DEF IInv, RestorersOK, AppWrites
<1>5. Custody'
  <2>1. \A d \in Body \ {b} : (OnDisk(d)' <=> OnDisk(d)) /\ (Held(d)' <=> Held(d))
    BY ConstantAssumption DEF IInv, TypeOK, OnDisk, Held, AppWrites
  <2>2. OnDisk(b)'
    BY ConstantAssumption DEF IInv, TypeOK, OnDisk, AppWrites
  <2> QED
    BY <2>1, <2>2 DEF IInv, TypeOK, Custody, AppWrites
<1>6. (TakenFaithful /\ MetaFaithful /\ RowBacked /\ Exclusive /\ RetentionOK)'
  BY DEF IInv, TakenFaithful, MetaFaithful, RowBacked, Exclusive, RetentionOK,
     AppWrites, ClSync, RsSync
<1>7. QED
  BY <1>1, <1>2, <1>3, <1>4, <1>5, <1>6 DEF IInv

\* The clock passes a row's cutoff.
LEMMA RowAgesKeeps ==
  ASSUME IInv, NEW q \in Qid, RowAges(q)
  PROVE  IInv'
<1>1. TypeOK'
  BY DEF IInv, TypeOK, RowAges, files, hist
<1>2. RetentionOK'
  BY DEF IInv, RetentionOK, RowAges
<1>3. (DiskFaithful /\ TakenFaithful /\ MetaFaithful /\ RowBacked /\ Exclusive /\
      CleanersOK /\ RestorersOK /\ Custody)'
  BY DEF IInv, DiskFaithful, TakenFaithful, MetaFaithful, RowBacked, Exclusive,
     CleanersOK, RestorersOK, Custody, RowAges, files, hist, OnDisk, Held, ClSync,
     RsSync
<1>4. QED
  BY <1>1, <1>2, <1>3 DEF IInv

\* The policy is switched.
LEMMA SetRetentionKeeps ==
  ASSUME IInv, SetRetention
  PROVE  IInv'
<1>1. TypeOK'
  BY DEF IInv, TypeOK, SetRetention, files, hist
<1>2. (DiskFaithful /\ TakenFaithful /\ MetaFaithful /\ RowBacked /\ Exclusive /\
      CleanersOK /\ RestorersOK /\ RetentionOK /\ Custody)'
  BY DEF IInv, DiskFaithful, TakenFaithful, MetaFaithful, RowBacked, Exclusive,
     CleanersOK, RestorersOK, RetentionOK, Custody, SetRetention, files, hist,
     OnDisk, Held, ClSync, RsSync
<1>3. QED
  BY <1>1, <1>2 DEF IInv

\* The process ends: no handler is left, the files and the rows stay.
LEMMA CrashKeeps ==
  ASSUME IInv, Crash
  PROVE  IInv'
<1>1. TypeOK'
  BY DEF IInv, TypeOK, IdleCl, IdleRs, IdleRt, Crash, files, hist
<1>2. Exclusive'
  BY DEF Exclusive, ClSync, RsSync, IdleCl, IdleRs, Crash
<1>3. CleanersOK'
  BY DEF CleanersOK, IdleCl, Crash
<1>4. RestorersOK'
  BY DEF RestorersOK, IdleRs, Crash
<1>5. RetentionOK'
  BY DEF RetentionOK, IdleRt, Crash
<1>6. (DiskFaithful /\ TakenFaithful /\ MetaFaithful /\ RowBacked /\ Custody)'
  BY DEF IInv, DiskFaithful, TakenFaithful, MetaFaithful, RowBacked, Custody, Crash,
     files, hist, OnDisk, Held
<1>7. QED
  BY <1>1, <1>2, <1>3, <1>4, <1>5, <1>6 DEF IInv

\* Nothing changes.
LEMMA StutterKeeps == ASSUME IInv, UNCHANGED vars PROVE IInv'
  BY DEF IInv, TypeOK, DiskFaithful, TakenFaithful, MetaFaithful, RowBacked,
     Exclusive, CleanersOK, RestorersOK, RetentionOK, Custody, OnDisk, Held, ClSync,
     RsSync, vars, files, hist

\* Every step keeps the invariant.
LEMMA NextKeeps == ASSUME IInv, [Next]_vars PROVE IInv'
<1>1. ASSUME NEW c \in Cleaner, CleanerStep(c) PROVE IInv'
  BY <1>1, QuarantineCopiedKeeps, QuarantineUnlinkKeeps, QuarantineMetaKeeps,
     QuarantineInsertKeeps, QuarantineFailsKeeps DEF CleanerStep
<1>2. ASSUME NEW r \in Restorer, RestorerStep(r) PROVE IInv'
  BY <1>2, RestoreCopiedKeeps, RestoreUnlinkKeeps, RestoreUpdateKeeps,
     RestoreRmtreeKeeps, RestoreFailsKeeps DEF RestorerStep
<1>3. ASSUME RetentionStep PROVE IInv'
  BY <1>3, RetentionDeleteKeeps, RetentionUnlinkKeeps, RetentionCommitKeeps,
     RetentionFailsKeeps DEF RetentionStep
<1>4. QED
  BY <1>1, <1>2, <1>3, StutterKeeps, QuarantineRenameKeeps, QuarantineCopyKeeps,
     RestoreRenameKeeps, RestoreCopyKeeps, RetentionListKeeps, AppWritesKeeps,
     RowAgesKeeps, SetRetentionKeeps, CrashKeeps DEF Next

(* The inductive invariant holds in every reachable state.                   *)
THEOREM Invariance == Spec => []IInv
<1>1. Init => IInv
  BY InitIInv
<1>2. IInv /\ [Next]_vars => IInv'
  BY NextKeeps
<1>3. QED
  BY <1>1, <1>2, PTL DEF Spec

(* The variables keep their types, in every behaviour of every instance.     *)
THEOREM TypeCorrect == Spec => []TypeOK
<1>1. IInv => TypeOK
  BY DEF IInv
<1>2. QED
  BY <1>1, Invariance, PTL

(* Whatever quarantine_path, restore_quarantine and retention do             *)
(* concurrently, and wherever they fail or crash, a file body is lost only   *)
(* where Custody says: to retention, or to what a restore puts over it.      *)
THEOREM NoFileLost == Spec => []Custody
<1>1. IInv => Custody
  BY DEF IInv
<1>2. QED
  BY <1>1, Invariance, PTL

(* An active row always has the meta.json that restores it to the path its   *)
(* file was taken from, and offers what was taken: never another file, and a *)
(* torn one only if a cleanup took it torn.                                  *)
THEOREM RowsAreBacked == Spec => []ListedIsBacked
<1>1. IInv => ListedIsBacked
  BY ConstantAssumption DEF IInv, RowBacked, MetaFaithful, ListedIsBacked
<1>2. QED
  BY <1>1, Invariance, PTL

-----------------------------------------------------------------------------
\* A restored row's entry is empty: the UPDATE comes after the move.
RestoredEmpty == \A q \in Qid : row[q] = "restored" => qfile[q] = NoFile

\* Only a cleaner fills an entry, and no row names it before it is done.
LEMMA RestoredEmptyKeeps ==
  ASSUME IInv, RestoredEmpty, [Next]_vars
  PROVE  RestoredEmpty'
<1>1. ASSUME NEW c \in Cleaner, NEW p \in Path, NEW q \in Qid,
             QuarantineRename(c, p, q) \/ QuarantineCopy(c, p, q)
      PROVE  RestoredEmpty'
  BY <1>1, ConstantAssumption
     DEF IInv, TypeOK, TakenFaithful, RestoredEmpty, QuarantineRename, QuarantineCopy, Take
<1>2. ASSUME NEW c \in Cleaner, CleanerStep(c) PROVE RestoredEmpty'
  <2>1. CASE QuarantineCopied(c)
    BY <2>1 DEF IInv, TypeOK, CleanersOK, RestoredEmpty, QuarantineCopied
  <2>2. CASE QuarantineInsert(c)
    BY <2>2 DEF IInv, TypeOK, CleanersOK, RestoredEmpty, QuarantineInsert, files
  <2>3. CASE QuarantineUnlink(c) \/ QuarantineMeta(c) \/ QuarantineFails(c)
    BY <2>3 DEF RestoredEmpty, QuarantineUnlink, QuarantineMeta, QuarantineFails, files
  <2>4. QED
    BY <1>2, <2>1, <2>2, <2>3 DEF CleanerStep
<1>3. ASSUME NEW r \in Restorer, NEW q \in Qid, RestoreRename(r, q) \/ RestoreCopy(r, q)
      PROVE  RestoredEmpty'
  BY <1>3 DEF IInv, TypeOK, RestoredEmpty, RestoreRename, RestoreCopy
<1>4. ASSUME NEW r \in Restorer, RestorerStep(r) PROVE RestoredEmpty'
  <2>1. CASE RestoreUpdate(r)
    BY <2>1 DEF IInv, TypeOK, RestorersOK, RestoredEmpty, RestoreUpdate, files
  <2>2. CASE RestoreUnlink(r) \/ RestoreRmtree(r)
    BY <2>2 DEF IInv, TypeOK, RestoredEmpty, RestoreUnlink, RestoreRmtree
  <2>3. CASE RestoreCopied(r) \/ RestoreFails(r)
    BY <2>3 DEF RestoredEmpty, RestoreCopied, RestoreFails, files
  <2>4. QED
    BY <1>4, <2>1, <2>2, <2>3 DEF RestorerStep
<1>5. ASSUME RetentionStep PROVE RestoredEmpty'
  <2>1. CASE \E q \in Qid : RetentionUnlink(q)
    BY <2>1 DEF IInv, TypeOK, RestoredEmpty, RetentionUnlink
  <2>2. CASE RetentionCommit
    BY <2>2 DEF IInv, TypeOK, RestoredEmpty, RetentionCommit, files
  <2>3. CASE (\E q \in Qid : RetentionDelete(q)) \/ RetentionFails
    BY <2>3 DEF RestoredEmpty, RetentionDelete, RetentionFails, files
  <2>4. QED
    BY <1>5, <2>1, <2>2, <2>3 DEF RetentionStep
<1>6. ASSUME \/ RetentionList \/ SetRetention \/ Crash \/ UNCHANGED vars
             \/ \E b \in Body : AppWrites(b)
             \/ \E q \in Qid : RowAges(q)
      PROVE  RestoredEmpty'
  BY <1>6 DEF RestoredEmpty, RetentionList, SetRetention, Crash, AppWrites, RowAges,
              vars, files
<1>7. QED
  BY <1>1, <1>2, <1>3, <1>4, <1>5, <1>6 DEF Next

\* What a step may take out of the quarantine directory.
LeavesWell ==
    \A q \in Qid : (qfile[q] \in Body /\ qfile'[q] # qfile[q])
        => disk'[HomeOf[qfile[q]]] = qfile[q] \/ (q \in expired /\ row[q] # "restored")

\* The list retention works from is old, but its entries stay expired, and one
\* that was restored since has no file left to unlink.
LEMMA StepLeavesWell ==
  ASSUME IInv, RestoredEmpty, [Next]_vars
  PROVE  LeavesWell
<1>1. ASSUME NEW c \in Cleaner, NEW p \in Path, NEW q \in Qid,
             QuarantineRename(c, p, q) \/ QuarantineCopy(c, p, q)
      PROVE  LeavesWell
  BY <1>1, ConstantAssumption
     DEF IInv, TypeOK, TakenFaithful, LeavesWell, QuarantineRename, QuarantineCopy, Take
<1>2. ASSUME NEW c \in Cleaner, CleanerStep(c) PROVE LeavesWell
  <2>1. CASE QuarantineCopied(c)
    BY <2>1, ConstantAssumption DEF IInv, TypeOK, CleanersOK, LeavesWell, QuarantineCopied
  <2>2. CASE \/ QuarantineUnlink(c) \/ QuarantineMeta(c) \/ QuarantineInsert(c)
             \/ QuarantineFails(c)
    BY <2>2 DEF LeavesWell, QuarantineUnlink, QuarantineMeta, QuarantineInsert,
                QuarantineFails, files
  <2>3. QED
    BY <1>2, <2>1, <2>2 DEF CleanerStep
<1>3. ASSUME NEW r \in Restorer, NEW q \in Qid, RestoreRename(r, q) \/ RestoreCopy(r, q)
      PROVE  LeavesWell
  BY <1>3, ConstantAssumption
     DEF IInv, TypeOK, MetaFaithful, LeavesWell, RestoreRename, RestoreBegin, RestoreCopy
<1>4. ASSUME NEW r \in Restorer, RestorerStep(r) PROVE LeavesWell
  <2>1. CASE RestoreUnlink(r)
    BY <2>1, ConstantAssumption
       DEF IInv, TypeOK, MetaFaithful, RestorersOK, LeavesWell, RestoreUnlink
  <2>2. CASE RestoreRmtree(r)
    BY <2>2, ConstantAssumption DEF IInv, TypeOK, RestorersOK, LeavesWell, RestoreRmtree
  <2>3. CASE RestoreCopied(r) \/ RestoreUpdate(r) \/ RestoreFails(r)
    BY <2>3 DEF LeavesWell, RestoreCopied, RestoreUpdate, RestoreFails, files
  <2>4. QED
    BY <1>4, <2>1, <2>2, <2>3 DEF RestorerStep
<1>5. ASSUME RetentionStep PROVE LeavesWell
  <2>1. CASE \E q \in Qid : RetentionUnlink(q)
    BY <2>1, ConstantAssumption
       DEF IInv, TypeOK, RetentionOK, RestoredEmpty, LeavesWell, RetentionUnlink
  <2>2. CASE (\E q \in Qid : RetentionDelete(q)) \/ RetentionCommit \/ RetentionFails
    BY <2>2 DEF LeavesWell, RetentionDelete, RetentionCommit, RetentionFails, files
  <2>3. QED
    BY <1>5, <2>1, <2>2 DEF RetentionStep
<1>6. ASSUME \/ RetentionList \/ SetRetention \/ Crash \/ UNCHANGED vars
             \/ \E b \in Body : AppWrites(b)
             \/ \E q \in Qid : RowAges(q)
      PROVE  LeavesWell
  BY <1>6 DEF LeavesWell, RetentionList, SetRetention, Crash, AppWrites, RowAges,
              vars, files
<1>7. QED
  BY <1>1, <1>2, <1>3, <1>4, <1>5, <1>6 DEF Next

(* A complete file leaves quarantine only for its original path, or because   *)
(* its entry was past the cutoff: neither a second restore nor retention's    *)
(* old list of entries takes anything else.                                   *)
THEOREM OnlyHomeOrExpired == Spec => LeavesHomeOrExpired
<1>1. Init => IInv /\ RestoredEmpty
  BY InitIInv DEF Init, RestoredEmpty
<1>2. IInv /\ RestoredEmpty /\ [Next]_vars => (IInv /\ RestoredEmpty)'
  BY NextKeeps, RestoredEmptyKeeps
<1>3. IInv /\ RestoredEmpty /\ [Next]_vars => [LeavesWell]_vars
  BY StepLeavesWell
<1>4. LeavesHomeOrExpired <=> [][LeavesWell]_vars
  BY DEF LeavesHomeOrExpired, LeavesWell
<1>5. QED
  BY <1>1, <1>2, <1>3, <1>4, PTL DEF Spec
=============================================================================
