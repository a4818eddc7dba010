---------------------------- MODULE Migrations ----------------------------
(***************************************************************************)
(* A database under Alembic: "upgrade" to the newest revision of a release *)
(* (entrypoint and Helm hook of every deployment) and "downgrade -1" (the  *)
(* documented way back), while the services write rows.  A command is one  *)
(* transaction: a step that fails leaves the database as it was.           *)
(***************************************************************************)
EXTENDS Schema

VARIABLES
    revision,    \* alembic_version, as a position in Revisions
    schema,      \* the objects of the database
    contents     \* the rows the revisions depend on

mig_vars == <<revision, schema, contents>>

MigInit ==
    /\ revision = 0
    /\ schema = {}
    /\ contents = {}

\* Mutant: the version is set to the revision after the last one that ran.
upgrade_past(to) ==
    /\ revision < to
    /\ LET st == Upgraded(schema, contents, revision, to)
       IN  /\ st.ok
           /\ schema' = st.schema
           /\ contents' = st.rows
    /\ revision' = to + 1

\* alembic upgrade, by a release whose newest revision is to.
upgrade(to) ==
    /\ revision < to
    /\ LET st == Upgraded(schema, contents, revision, to)
       IN  /\ st.ok
           /\ schema' = st.schema
           /\ contents' = st.rows
    /\ revision' = to

\* alembic downgrade -1
downgrade ==
    /\ revision > 0
    /\ LET st == Downgraded(schema, contents, revision)
       IN  /\ st.ok
           /\ schema' = st.schema
           /\ contents' = st.rows
    /\ revision' = revision - 1

\* A row of merge_groups, and two concurrent add_hub_connection requests.
InsertRows(r) ==
    /\ r = "merge_groups" => Tab("merge_groups") \in schema
    /\ r = Twins =>
          /\ Tab("hub_connections") \in schema
          /\ HubKey \notin schema
    /\ r \notin contents
    /\ contents' = contents \union {r}
    /\ UNCHANGED <<revision, schema>>

MigNext ==
    \/ \E to \in 1..HeadRevision : upgrade(to)
    \/ downgrade
    \/ \E r \in Rows : InsertRows(r)

MigSpec == MigInit /\ [][MigNext]_mig_vars

-----------------------------------------------------------------------------
\* No command reaches the newest revision: its first statement is refused by
\* every database.
MigTypeOK ==
    /\ revision \in 0..LastRevision
    /\ contents \subseteq Rows
    /\ \A obj \in schema : obj[1] \in {"table", "unique", "fk", "index",
                                       "column", "type"}

\* What the classes declare and a database never has: the reference to
\* carrier_configs, which a revision drops for good, the uniqueness of a carrier's
\* code, which no revision creates, and that of a pair of hubs, which only the
\* revision that is always refused creates.
Drift == {Fk("transport_orders", "carrier_configs"),
          Uq("carrier_configs", "carrier_code"), HubKey}

\* What the services count on: a database that was brought as far as the revisions
\* can be applied, by whatever commands, has every table, unique constraint and
\* reference of the ORM classes but for those three.
LastHasDeclared == revision = LastRevision => Declared \ schema = Drift

\* Up to there an upgrade is refused only when a downgrade left an enum type
\* behind that the upgrade creates: never because of a table, an index or the rows
\* that were written in between.
TypesOf(n) == UNION {Revisions[n].up[i].ops[1].types : i \in DOMAIN Revisions[n].up}

CanUpgrade ==
    IF schema = {} THEN FreshStart.ok
    ELSE Upgraded(schema, contents, revision, LastRevision).ok

UpgradeStuckOnlyOnTypes ==
    \/ revision = LastRevision
    \/ CanUpgrade
    \/ \E n \in (revision + 1)..LastRevision : TypesOf(n) \intersect schema # {}

=============================================================================
