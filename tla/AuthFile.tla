------------------------------ MODULE AuthFile ------------------------------
(***************************************************************************)
(* The credential store in memory and its copy auth.db (auth-basic.c,      *)
(* auth-pwd.c, auth.c).  Each change of a password is followed by a save,  *)
(* which opens the file without truncating it and writes one line per      *)
(* entry; a restart reads the lines back.  ChallengeSession takes a save   *)
(* and a reload for one step and the file for the store; this module opens *)
(* them.                                                                   *)
(*                                                                         *)
(* The file is a sequence of cells.  A line is a cell for the columns up to*)
(* the site, the cells of the password, those of the new password if one   *)
(* is pending, and a cell for the rest with the end of the line.  A line is*)
(* written by one call; a program runs between two lines (log_auth_info),  *)
(* so that the process may well end there.                                 *)
(***************************************************************************)
EXTENDS Integers, Sequences, SequencesExt

CONSTANTS To,         \* entries of the base "to": the process renews these
          From,       \* entries of the base "from": the peer renews these
          Order,      \* the entries in the order of the file as it was written by hand
          Pwd,        \* passwords
          Size,       \* Size[p]: cells of p in hexadecimal
          MinSize,    \* AUTH_PWD_LEN_MIN, in cells
          First,      \* First[e]: the password of e in the file as it was written by hand
          MaxChanges, \* bound: changes of passwords
          MaxCrashes  \* bound: ends of the process

Entry == To \union From
None == "none"
Ready == [todo |-> 0, next |-> 1, at |-> 0]

ASSUME FileAssumption ==
    /\ To \intersect From = {}
    /\ Order \in Seq(Entry) /\ IsInjective(Order) /\ Range(Order) = Entry
    /\ None \notin Pwd
    /\ Size \in [Pwd -> Nat \ {0}] /\ First \in [Entry -> Pwd]
    /\ \A e \in Entry : Size[First[e]] >= MinSize
    /\ {MinSize, MaxChanges, MaxCrashes} \subseteq Nat

VARIABLES
    mem,       \* the store: password and pending password of each entry in it
    order,     \* the entries in the order of the lists they are chained in
    file,      \* auth.db
    up,        \* the process runs
    save,      \* the save under way: saves to do, next entry, offset in the file
    had,       \* had[e]: the passwords e has had or was offered
    shorter,   \* a save was shorter than the file
    changes, crashes

filevars == <<mem, order, file, up, save, had, shorter, changes, crashes>>

Credential == [pwd : Pwd, new : Pwd \union {None}]

-----------------------------------------------------------------------------
(* Lines.                                                                  *)

Cells(column, p) == [i \in 1 .. Size[p] |-> [column |-> column, pwd |-> p, part |-> i]]
Key(e) == [column |-> "key", entry |-> e]
EndOfLine == [column |-> "end"]

\* auth_write.
auth_write(e, c) ==
    <<Key(e)>> \o Cells("pwd", c.pwd)
        \o (IF c.new = None THEN <<>> ELSE Cells("new", c.new)) \o <<EndOfLine>>

\* A line written by hand holds the password itself: half of the digits.
HandWritten(e) == <<Key(e), [column |-> "text", pwd |-> First[e]], EndOfLine>>

\* strtok_r: the first and the last cell of each line of a file.
Ends(f) == {j \in DOMAIN f : f[j] = EndOfLine}
Lines(f) ==
    {l \in (DOMAIN f) \X Ends(f) :
        /\ l[1] <= l[2] /\ (l[1] = 1 \/ l[1] - 1 \in Ends(f))
        /\ \A k \in l[1] .. l[2] - 1 : k \notin Ends(f)}

\* auth_pwd_decode: what is too short is refused.
auth_pwd_decode(p) == Size[p] >= MinSize

\* The lines that give an entry a credential, and the rests of such a line.
LinesOf(e, c) ==
    {auth_write(e, c)} \union (IF c = [pwd |-> First[e], new |-> None] THEN {HandWritten(e)} ELSE {})
RestsOf(e, c) ==
    {SubSeq(auth_write(e, c), k, Len(auth_write(e, c))) : k \in 2 .. Size[c.pwd] + 1}

\* Mutant: the columns are not counted, and the first ones not asked for.
Decode_NoKey(line) ==
    {d \in Entry \X Credential :
        line \in LinesOf(d[1], d[2]) \union RestsOf(d[1], d[2]) /\ auth_pwd_decode(d[2].pwd)}

\* The entries and credentials that a line stands for: one, or none when the
\* line is ignored for its columns or its password.
Decode(line) ==
    {d \in Entry \X Credential : line \in LinesOf(d[1], d[2]) /\ auth_pwd_decode(d[2].pwd)}

\* What the lines say of an entry: where the line ends, and the credential.
Records(f, e) ==
    UNION {{<<l[2], d[2]>> : d \in {x \in Decode(SubSeq(f, l[1], l[2])) : x[1] = e}} : l \in Lines(f)}

Latest(records) == CHOOSE r \in records : \A q \in records : q[1] <= r[1]

\* A later line of an entry replaces its password; a pending password stays
\* when the line has none, or one that is refused.
Loaded(records) ==
    LET pending == {r \in records : r[2].new # None /\ auth_pwd_decode(r[2].new)}
    IN  [pwd |-> Latest(records)[2].pwd,
         new |-> IF pending = {} THEN None ELSE Latest(pending)[2].new]

auth_unserialize_from_file(f) ==
    [e \in {x \in Entry : Records(f, x) # {}} |-> Loaded(Records(f, e))]

\* auth_search_by_key: an entry is chained at the end, when its first line is
\* read (the lists of bases, sites and logins are seen as one).
Orders == {o \in [DOMAIN Order -> Entry] : IsInjective(o) /\ Range(o) = Entry}
Listed(f) ==
    {o \in Orders : \A i, j \in DOMAIN o :
        i < j => \A q \in Records(f, o[j]) : \E r \in Records(f, o[i]) : r[1] < q[1]}

-----------------------------------------------------------------------------

\* auth.db before the first start: a line of three cells for each entry.
HandWrittenFile ==
    [i \in 1 .. 3 * Len(Order) |-> HandWritten(Order[(i + 2) \div 3])[((i + 2) % 3) + 1]]

FileInit ==
    /\ mem = [e \in Entry |-> [pwd |-> First[e], new |-> None]]
    /\ order = Order /\ file = HandWrittenFile
    /\ up = TRUE /\ save = Ready
    /\ had = [e \in Entry |-> {First[e]}]
    /\ shorter = FALSE
    /\ changes = 0 /\ crashes = 0

\* A change of an entry, and the saves that follow it.
Change(e, c, saves) ==
    /\ up /\ save.todo = 0 /\ e \in DOMAIN mem /\ changes < MaxChanges
    /\ mem' = [mem EXCEPT ![e] = c]
    /\ had' = [had EXCEPT ![e] = @ \union ({c.pwd, c.new} \ {None})]
    /\ save' = [Ready EXCEPT !.todo = saves]
    /\ changes' = changes + 1
    /\ UNCHANGED <<order, file, up, shorter, crashes>>

\* A new password of the length of the old, unless one is pending.
auth_get_new_pwd_b64(e) ==
    \/ mem[e].new # None /\ Change(e, mem[e], 1)
    \/ \E p \in Pwd : /\ mem[e].new = None /\ Size[p] = Size[mem[e].pwd]
                      /\ Change(e, [mem[e] EXCEPT !.new = p], 1)

\* Mutant: the pending flag is not tested.
auth_switch_to_new_pwd_Untested(e) == Change(e, [pwd |-> mem[e].new, new |-> None], 1)

auth_switch_to_new_pwd(e) ==
    /\ mem[e].new # None
    /\ Change(e, [pwd |-> mem[e].new, new |-> None], 1)

\* The password of the peer, of whatever length, is saved twice.
auth_set_pwd_b64(e) == \E p \in Pwd : Change(e, [mem[e] EXCEPT !.pwd = p], 2)

\* auth_foreach: the places of the entries that are still to be written.
Unwritten == {k \in save.next .. Len(order) : order[k] \in DOMAIN mem}

\* What a write at an offset leaves of a file.
Overwritten(f, at, line) ==
    [i \in 1 .. (IF at + Len(line) > Len(f) THEN at + Len(line) ELSE Len(f)) |->
        IF i \in at + 1 .. at + Len(line) THEN line[i - at] ELSE f[i]]

\* Mutant: a line is added at the end of the file.
WriteLine_Appends ==
    /\ up /\ save.todo > 0 /\ Unwritten # {}
    /\ LET e == order[Min(Unwritten)]
       IN  /\ file' = file \o auth_write(e, mem[e])
           /\ save' = [save EXCEPT !.next = Min(Unwritten) + 1, !.at = Len(file')]
    /\ UNCHANGED <<mem, order, up, had, shorter, changes, crashes>>

\* Mutant: each line is written at the start of the file.
WriteLine_SameOffset ==
    /\ up /\ save.todo > 0 /\ Unwritten # {}
    /\ LET e == order[Min(Unwritten)]
           line == auth_write(e, mem[e])
       IN  /\ file' = Overwritten(file, 0, line)
           /\ save' = [save EXCEPT !.next = Min(Unwritten) + 1]
    /\ UNCHANGED <<mem, order, up, had, shorter, changes, crashes>>

\* auth_db_serialize: the line of the next entry, over what the file holds.
WriteLine ==
    /\ up /\ save.todo > 0 /\ Unwritten # {}
    /\ LET e == order[Min(Unwritten)]
           line == auth_write(e, mem[e])
       IN  /\ file' = Overwritten(file, save.at, line)
           /\ save' = [save EXCEPT !.next = Min(Unwritten) + 1, !.at = @ + Len(line)]
    /\ UNCHANGED <<mem, order, up, had, shorter, changes, crashes>>

\* auth_serialize_to_file closes the file: what lies after the last line stays.
CloseFile ==
    /\ up /\ save.todo > 0 /\ Unwritten = {}
    /\ shorter' = (shorter \/ save.at < Len(file))
    /\ save' = [Ready EXCEPT !.todo = save.todo - 1]
    /\ UNCHANGED <<mem, order, file, up, had, changes, crashes>>

EndOfProcess ==
    /\ up /\ crashes < MaxCrashes
    /\ up' = FALSE
    /\ crashes' = crashes + 1
    /\ UNCHANGED <<mem, order, file, save, had, shorter, changes>>

\* main reads the file.
Restart ==
    /\ ~up
    /\ up' = TRUE /\ mem' = auth_unserialize_from_file(file) /\ save' = Ready
    /\ order' \in Listed(file)
    /\ UNCHANGED <<file, had, shorter, changes, crashes>>

FileNext ==
    \/ \E e \in To : e \in DOMAIN mem /\ (auth_get_new_pwd_b64(e) \/ auth_switch_to_new_pwd(e))
    \/ \E e \in From : e \in DOMAIN mem /\ auth_set_pwd_b64(e)
    \/ WriteLine \/ CloseFile \/ EndOfProcess \/ Restart

FileSpec == FileInit /\ [][FileNext]_filevars

-----------------------------------------------------------------------------
(* Properties.                                                             *)

Cell ==
    {EndOfLine} \union {Key(e) : e \in Entry} \union [column : {"text"}, pwd : Pwd]
        \union [column : {"pwd", "new"}, pwd : Pwd, part : Nat]

FileTypeOK ==
    /\ DOMAIN mem \subseteq Entry /\ mem \in [DOMAIN mem -> Credential]
    /\ order \in Orders /\ file \in Seq(Cell) /\ up \in BOOLEAN /\ shorter \in BOOLEAN
    /\ save \in [todo : 0 .. 2, next : 1 .. Len(Order) + 1, at : Nat] /\ save.at <= Len(file)
    /\ had \in [Entry -> SUBSET Pwd] /\ changes \in 0 .. MaxChanges /\ crashes \in 0 .. MaxCrashes

\* Lines that overwrite each other at any offset, cut at any line by the end of
\* the process, never give an entry a password it has not had: a rest of a line
\* has no key and is ignored (auth_unserialize_from_file).
OnlyOwnPasswords ==
    \A e \in DOMAIN mem : mem[e].pwd \in had[e] /\ mem[e].new \in had[e] \union {None}

AllLong == \A e \in DOMAIN mem : auth_pwd_decode(mem[e].pwd)

\* As long as no save was shorter than the file, and the passwords are long
\* enough, reading the file after a complete save gives the store back: the
\* next start finds what the process had when it ended.
ExactUnlessShorter ==
    (save.todo = 0 /\ ~shorter /\ AllLong) => auth_unserialize_from_file(file) = mem

\* No complete save loses an entry, whatever the rests in the file are.
EntriesKept ==
    (save.todo = 0 /\ AllLong) => DOMAIN auth_unserialize_from_file(file) = DOMAIN mem

\* What auth.db promises, however its lines overwrite each other: no password of
\* another entry, no entry lost, and the store itself after full-length saves
\* (auth_serialize_to_file, auth_unserialize_from_file).
FileIsFaithful == FileTypeOK /\ OnlyOwnPasswords /\ ExactUnlessShorter /\ EntriesKept

\* auth-basic.h:118, "transfert les données en mémoire sur un fichier de
\* sauvegarde": reading the file after a complete save gives the store back.
RestartRestores == save.todo = 0 => auth_unserialize_from_file(file) = mem

\* The same, of entries whose passwords are long enough to be read back.
RestoresLong == AllLong => RestartRestores

-----------------------------------------------------------------------------
(* Why it is: what the process wrote of the store it has, and what remains *)
(* of earlier saves.                                                       *)

\* The passwords the process draws have the length of those they replace; the
\* peer's are not renewed here.
SameLength ==
    /\ \A e \in To : \A p \in had[e] : Size[p] = Size[First[e]]
    /\ \A e \in From \intersect DOMAIN mem : mem[e].new = None

\* A key is the first cell of a line: a rest of a line begins with none.
KeysFirst(f) ==
    \A i \in DOMAIN f : f[i].column = "key" => i = 1 \/ i - 1 \in Ends(f)

\* Every line, of whichever save, holds passwords its entry has had.
OwnLines ==
    \A e \in Entry : \A r \in Records(file, e) :
        /\ r[2].pwd \in had[e] /\ r[2].new \in had[e] \union {None}
        /\ e \in From => r[2].new = None

\* No line is left of an entry the store does not have.
NoStranger == \A e \in Entry : Records(file, e) # {} => e \in DOMAIN mem

\* Up to the offset of the save under way the file is the store, as far as the
\* entries have been written.
Written ==
    /\ save.at = 0 \/ save.at \in Ends(file)
    /\ \A e \in Entry : \A r \in Records(file, e) : r[1] <= save.at => r[2] = mem[e]
    /\ \A k \in 1 .. save.next - 1 :
          order[k] \in DOMAIN mem /\ auth_pwd_decode(mem[order[k]].pwd) =>
              \E r \in Records(file, order[k]) : r[1] <= save.at

FileInv ==
    /\ FileIsFaithful /\ SameLength /\ KeysFirst(file) /\ OwnLines /\ NoStranger
    /\ save.todo > 0 => Written
=============================================================================
