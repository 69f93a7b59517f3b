----------------------------- MODULE WholeTable -----------------------------
(***************************************************************************)
(* What a client of VaireDB's write path may rely on: each table is one    *)
(* set of rows, and a statement does to it what one engine would do.       *)
(*                                                                         *)
(* Two liberties are the documented limits of v0.1: any statement may be   *)
(* refused, with nothing written; and one that fails because of the rows   *)
(* may leave the effect of some of its rows behind (a statement is not     *)
(* atomic across shards). It may fail only if one engine would fail too.   *)
(***************************************************************************)
EXTENDS ShardEngine

CONSTANTS Statements, SecretWrites

VARIABLES rows, secrets, sent, reply

vars == <<rows, secrets, sent, reply>>

\* A value written to an anonymized column is stored as its digest.
Hashed(t, c, e) ==
    IF \/ c \notin DOMAIN Meta[t].anonymized \/ e.form = "null"
       \/ Meta[t].anonymized[c] \notin DOMAIN secrets
    THEN e
    ELSE Expr("quoted", Hmac(secrets[Meta[t].anonymized[c]],
                             [quote |-> "", body |-> e.body]))

HashedAll(t, f) == [c \in DOMAIN f |-> Hashed(t, c, f[c])]

\* The statement with its rows and columns spelled out and its values hashed.
Read(st) ==
    IF st.op = "insert" /\ st.source # "" THEN Literals(Selected(st, rows[st.source]))
    ELSE IF st.op = "copy" THEN Literals(st)
    ELSE st

HashedStatement(st, cols) ==
    [st EXCEPT !.cols = cols,
               !.rows = IF st.op # "insert" THEN @
                        ELSE [r \in DOMAIN @ |->
                                [i \in DOMAIN @[r] |-> Hashed(st.table, cols[i], @[r][i])]],
               !.set = HashedAll(st.table, @),
               !.conflict.set = HashedAll(st.table, @)]

WithColumns(st) ==
    HashedStatement(st, IF st.op = "insert" /\ st.cols = <<>> /\ st.rows # <<>>
                        THEN SubSeq(Meta[st.table].cols, 1, Len(st.rows[1])) ELSE st.cols)

Meaning(st) == WithColumns(Read(st))

WithRows(st, R) ==
    LET mine == SelectSeq([r \in DOMAIN st.rows |-> r], LAMBDA r : r \in R)
    IN [st EXCEPT !.rows = [i \in DOMAIN mine |-> st.rows[mine[i]]]]

Of(st) == Effect(st, rows[st.table], IF st.op = "merge" /\ st.source # "" THEN rows[st.source] ELSE {})

Failing(t, st) ==
    \E R \in SUBSET DOMAIN st.rows : \E some \in {Of(WithRows(st, R))} :
        /\ some.ok
        /\ rows' = [rows EXCEPT ![t] = some.rows]
        /\ reply'.rows <= some.n

Does(st) ==
    \/ UNCHANGED rows /\ reply' = Answer("refused", 0)
    \/ /\ reply'.tag \in {"done", "failed", "partial"}
       /\ \E meant \in {Meaning(st)} : \E all \in {Of(meant)} :
             /\ all.ok <=> reply'.tag = "done"
             /\ IF all.ok
                THEN /\ rows' = [rows EXCEPT ![st.table] = all.rows]
                     /\ reply' = Answer("done", all.n)
                ELSE Failing(st.table, meant)

Execute(n) == sent = 0 /\ sent' = n /\ Does(Statements[n]) /\ UNCHANGED secrets

WriteSecret(w) == /\ sent = 0 /\ sent' = -1
                  /\ UNCHANGED rows
                  /\ secrets' \in {secrets, w.keys @@ secrets}

Answered == sent # 0 /\ sent' = 0 /\ UNCHANGED <<rows, secrets>>

Init == rows = [t \in Tables |-> {}] /\ secrets = <<>> /\ sent = 0 /\ reply = Answer("done", 0)
Next == \/ \E n \in DOMAIN Statements : Execute(n)
        \/ \E w \in SecretWrites : WriteSecret(w)
        \/ Answered
Spec == Init /\ [][Next]_vars
=============================================================================
