----------------------------- MODULE MCDatabase -----------------------------
(* Model checking of Documents, Catalog and Migrations, which have no state *)
(* in common here: each behaviour follows one of them, chosen in Init.  The *)
(* requests are interchangeable, and so are the keys.                       *)
EXTENDS Documents, Migrations, Catalog, TLC

VARIABLE focus

db_vars == <<focus, vars, mig_vars, cat_vars>>

\* The initial choices of the parts that are not followed.
AtRest ==
    /\ focus # "documents" => kind = "wave"
    /\ focus # "catalog" => area = "billing"

DatabaseInit ==
    /\ focus \in {"documents", "catalog", "migrations"}
    /\ Init /\ MigInit /\ CatInit
    /\ AtRest

DatabaseNext ==
    /\ UNCHANGED focus
    /\ \/ focus = "documents" /\ Next /\ UNCHANGED <<mig_vars, cat_vars>>
       \/ focus = "migrations" /\ MigNext /\ UNCHANGED <<vars, cat_vars>>
       \/ focus = "catalog" /\ CatNext /\ UNCHANGED <<vars, mig_vars>>

DatabaseSpec == DatabaseInit /\ [][DatabaseNext]_db_vars

\* The variables of Migrations and Catalog hold values of their kinds.
RowsTypeOK == MigTypeOK /\ CatTypeOK

Interchangeable ==
    Permutations(Sessions) \union Permutations(Requests) \union Permutations(Keys)

=============================================================================
