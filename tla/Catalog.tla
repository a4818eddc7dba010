------------------------------ MODULE Catalog ------------------------------
(***************************************************************************)
(* The requests that insert, change or delete single rows of the master    *)
(* data (src/wms/service.py, src/tms/service.py, src/auth/service.py and   *)
(* the admin screens) against the constraints that the Alembic revisions   *)
(* really put on the tables (FreshSchema of Schema): those of the last     *)
(* revision that can be applied.                                           *)
(*                                                                         *)
(* A request reads, decides and queues its writes in the session (one      *)
(* action, named after the function); the flush and commit come later and  *)
(* succeed or are refused by the database as a whole.  The areas of the    *)
(* business have no table in common here, so one, chosen in Init, is       *)
(* followed.  Columns no constraint or handler looks at are left out, and  *)
(* so are the rows that only make a DELETE fail.                           *)
(***************************************************************************)
EXTENDS Schema, FiniteSets, Functions

CONSTANTS
    Requests,    \* concurrent HTTP requests
    Keys,        \* codes, names and numbers the clients choose
    MaxRows      \* bound: rows ever inserted

ASSUME CatalogAssumption == MaxRows \in Nat

VARIABLES
    area,        \* the part of the business that is followed
    db,          \* per primary key: the row, or NoRow
    dead,        \* primary keys of deleted rows; a uuid4 is never reused
    req,         \* per request: the writes its session has queued
    raced        \* requests that another one has committed under since they read

cat_vars == <<area, db, dead, req, raced>>

Areas ==
    [warehouse |-> {"warehouses", "locations", "inventory", "transfer_orders", "skus"},
     access    |-> {"users", "roles", "user_roles"},
     rights    |-> {"roles", "permissions", "role_permissions"},
     network   |-> {"transfer_hubs", "hub_connections", "carrier_routes",
                    "freight_tiers"},
     purchase  |-> {"vendors", "purchase_orders", "addresses"},
     billing   |-> {"invoices", "credit_memos"},
     device    |-> {"terminal_devices", "device_sessions", "sync_logs"},
     merge     |-> {"merge_groups"},
     webhooks  |-> {"webhook_targets", "webhook_delivery_logs"},
     messages  |-> {"notifications", "notification_preferences"},
     labels    |-> {"label_templates", "barcode_records", "waybills",
                    "pda_pending_mutations"},
     delivery  |-> {"transport_orders", "pod_records", "return_orders",
                    "transport_exceptions"}]

Ids == 1..MaxRows

\* A row: its unique columns with their values, what it references, a status.
Row(tab, keys, refs, state) == [tab |-> tab, keys |-> keys, refs |-> refs, state |-> state]
Usual == "usual"               \* the status of a row that is given none
NoRow == Row("none", {}, {}, Usual)
NewRow(tab, keys, refs) == Row(tab, keys, refs, Usual)

RowsOf(tab) == {i \in Ids : db[i].tab = tab}
Ref(tab, i) == <<tab, i>>
Unknown == 0                   \* an id the client sends that is no row's
Taken(tab, keys) == \E i \in RowsOf(tab) : db[i].keys \intersect keys # {}

\* put: rows to INSERT; upd: columns to UPDATE, as <<id, column, value>>; del:
\* rows to DELETE; cut: references to set to NULL before that, as <<child,
\* parent>>.  careful: the handler looked for what the constraints forbid.
Quiet == [put |-> {}, upd |-> {}, del |-> {}, cut |-> {}, open |-> FALSE,
          careful |-> FALSE]

-----------------------------------------------------------------------------
CatInit ==
    /\ area \in DOMAIN Areas
    /\ db = [i \in Ids |-> NoRow]
    /\ dead = {}
    /\ req = [p \in Requests |-> Quiet]
    /\ raced = {}

\* The primary keys that uuid.uuid4() can still return: n of them.
Reserved == UNION {{w[1] : w \in req[p].put} : p \in Requests}
Unused == {i \in Ids : db[i] = NoRow} \ (dead \union Reserved)
Fresh(n) == {i \in Unused : Cardinality({j \in Unused : j <= i}) <= n}

Queue(p, put, upd, del, cut, careful) ==
    /\ ~req[p].open
    /\ req' = [req EXCEPT ![p] = [put |-> put, upd |-> upd, del |-> del,
                                  cut |-> cut, open |-> TRUE,
                                  careful |-> careful]]
    /\ raced' = raced \ {p}
    /\ UNCHANGED <<area, db, dead>>

\* INSERT of one row, with the columns of other rows that change with it.
InsertWith(p, tab, keys, refs, upd, careful) ==
    /\ tab \in Areas[area]
    /\ Unused # {}
    /\ Queue(p, {<<CHOOSE i \in Fresh(1) : TRUE, NewRow(tab, keys, refs)>>},
             upd, {}, {}, careful)

Insert(p, tab, keys, refs, careful) ==
    InsertWith(p, tab, keys, refs, {}, careful)

\* An INSERT after a SELECT that found none of the keys.
InsertIfFree(p, tab, keys, refs) ==
    /\ ~Taken(tab, keys)
    /\ Insert(p, tab, keys, refs, TRUE)

Update(p, tab, i, column, value) ==
    /\ tab \in Areas[area]
    /\ i \in RowsOf(tab)
    /\ Queue(p, {}, {<<i, column, value>>}, {}, {}, FALSE)

\* db.delete(row): the ORM sets the references of the collections it knows of
\* to NULL, and removes the rows of the association tables, as far as it has
\* read them.
Collections == {<<"warehouses", "locations">>, <<"warehouses", "inventory">>,
                <<"locations", "inventory">>, <<"roles", "user_roles">>,
                <<"roles", "role_permissions">>}

Delete(p, tab, i) ==
    /\ tab \in Areas[area]
    /\ i \in RowsOf(tab)
    /\ Queue(p, {}, {}, {i},
             {<<c, i>> : c \in {c \in Ids : /\ <<tab, db[c].tab>> \in Collections
                                            /\ Ref(tab, i) \in db[c].refs}},
             FALSE)

-----------------------------------------------------------------------------
(* Warehouses, locations, stock and transfers                              *)

create_warehouse(p, k) == InsertIfFree(p, "warehouses", {<<"code", k>>}, {})

\* Any column, the code too, without looking for it.
update_warehouse(p, i, k) == Update(p, "warehouses", i, "code", k)

delete_warehouse(p, i) == Delete(p, "warehouses", i)

\* The code is put together from the request and not looked for.
create_location(p, w, k) ==
    /\ w \in RowsOf("warehouses")
    /\ Insert(p, "locations", {<<"code", k>>}, {Ref("warehouses", w)}, FALSE)

\* Not the code, nor the warehouse.
update_location(p, i) == Update(p, "locations", i, "state", "changed")

delete_location(p, i) == Delete(p, "locations", i)

\* The INSERT of adjust_inventory: warehouse and location as the client says.
insert_inventory(p, w, l) ==
    Insert(p, "inventory", {}, {Ref("warehouses", w), Ref("locations", l)}, FALSE)

\* The warehouse by its id, or by its code, which is then looked up; its items
\* with the SKU, created when _get_or_create_sku does not find it.
create_transfer_order(p, w, byCode, k) ==
    /\ "transfer_orders" \in Areas[area]
    /\ byCode => w \in RowsOf("warehouses")
    /\ \E s \in Fresh(1) :
          LET order == <<s, NewRow("transfer_orders", {}, {Ref("warehouses", w)})>>
              sku   == {<<"sku", k>>}
          IN  \/ /\ Taken("skus", sku)
                 /\ Queue(p, {order}, {}, {}, {}, byCode)
              \/ /\ ~Taken("skus", sku)
                 /\ \E t \in Fresh(2) \ {s} :
                       Queue(p, {order, <<t, NewRow("skus", sku, {})>>}, {}, {}, {}, byCode)

-----------------------------------------------------------------------------
(* Users, roles and permissions                                            *)

\* Mutant: the e-mail address is not looked for.
register_user_by_name(p, name, mail) ==
    /\ ~Taken("users", {<<"username", name>>})
    /\ Insert(p, "users", {<<"username", name>>, <<"email", mail>>}, {}, TRUE)

register_user(p, name, mail) ==
    InsertIfFree(p, "users", {<<"username", name>>, <<"email", mail>>}, {})

\* DELETE by statement: the database cascades, no ORM collection is read.
delete_user(p, i) == Delete(p, "users", i)

\* Active or not: the opposite of what was read.
toggle_user_active(p, i) ==
    Update(p, "users", i, "state", IF db[i].state = Usual THEN "inactive" ELSE Usual)

create_role(p, k) == InsertIfFree(p, "roles", {<<"code", k>>}, {})

update_role(p, i) == Update(p, "roles", i, "state", "changed")

\* No statement of the program makes a role a system role, which its guard is for.
delete_role(p, i) == Delete(p, "roles", i)

create_permission(p, k) == InsertIfFree(p, "permissions", {<<"code", k>>}, {})

assign_role_to_user(p, u, r) ==
    /\ u \in RowsOf("users")
    /\ r \in RowsOf("roles")
    /\ InsertIfFree(p, "user_roles", {<<"user_id+role_id", <<u, r>>>>},
                    {Ref("users", u), Ref("roles", r)})

remove_role_from_user(p, i) == Delete(p, "user_roles", i)

assign_permission_to_role(p, r, s) ==
    /\ r \in RowsOf("roles")
    /\ s \in RowsOf("permissions")
    /\ InsertIfFree(p, "role_permissions", {<<"role_id+permission_id", <<r, s>>>>},
                    {Ref("roles", r), Ref("permissions", s)})

remove_permission_from_role(p, i) == Delete(p, "role_permissions", i)

-----------------------------------------------------------------------------
(* Hubs, vendors, purchases and bills                                      *)

create_hub(p, k) == InsertIfFree(p, "transfer_hubs", {<<"code", k>>}, {})

\* The code is not among the columns it may change.
update_hub(p, i) == Update(p, "transfer_hubs", i, "state", "changed")

\* The codes of the hubs are plain strings: no hub needs to exist.
add_hub_connection(p, from, to) ==
    InsertIfFree(p, "hub_connections",
                 {<<"from_hub_code+to_hub_code", <<from, to>>>>}, {})

add_carrier_route(p) == Insert(p, "carrier_routes", {}, {}, TRUE)

create_freight_tier(p) == Insert(p, "freight_tiers", {}, {}, TRUE)

create_vendor(p, k) == InsertIfFree(p, "vendors", {<<"code", k>>}, {})

create_address(p) == Insert(p, "addresses", {}, {}, TRUE)

purchase_order(p, k, v) ==
    Insert(p, "purchase_orders", {<<"po_number", k>>}, {Ref("vendors", v)}, FALSE)

create_invoice(p, k) == Insert(p, "invoices", {<<"invoice_number", k>>}, {}, FALSE)

create_credit_memo(p, k, i) ==
    Insert(p, "credit_memos", {<<"credit_memo_number", k>>},
           {Ref("invoices", i)}, FALSE)

\* seed_hubs and seed_hub_connections of tms/seed.py look before they insert.
seed_hubs(p, k) == create_hub(p, k)
seed_hub_connections(p, from, to) == add_hub_connection(p, from, to)
seed_carrier_routes(p) == add_carrier_route(p)

-----------------------------------------------------------------------------
(* Devices, deliveries and returns                                         *)

register_device(p, k) == InsertIfFree(p, "terminal_devices", {<<"code", k>>}, {})

update_device(p, d, s) == Update(p, "terminal_devices", d, "state", s)

record_heartbeat(p, d) == Update(p, "terminal_devices", d, "state", "online")

\* A row of the device, which is online with it.
AtDevice(p, tab, d) ==
    /\ d \in RowsOf("terminal_devices")
    /\ InsertWith(p, tab, {}, {Ref("terminal_devices", d)},
                  {<<d, "state", "online">>}, TRUE)

record_sync(p, d) == AtDevice(p, "sync_logs", d)

create_session(p, d) == AtDevice(p, "device_sessions", d)

\* The device stays online.
end_session(p, i) == Update(p, "device_sessions", i, "state", "ended")

transport_order(p, k) ==
    Insert(p, "transport_orders", {<<"transport_no", k>>}, {}, FALSE)

\* One proof per transport order; the order itself is not looked for.
create_pod(p, t) ==
    /\ ~Taken("pod_records", {<<"transport_order_id", t>>})
    /\ Insert(p, "pod_records", {<<"transport_order_id", t>>},
              {Ref("transport_orders", t)}, t # Unknown)

update_pod(p, i) == Update(p, "pod_records", i, "state", "changed")

create_exception(p, t) ==
    /\ t \in RowsOf("transport_orders")
    /\ Insert(p, "transport_exceptions", {}, {Ref("transport_orders", t)}, TRUE)

resolve_exception(p, i) == Update(p, "transport_exceptions", i, "state", "resolved")

\* The number is the number of rows plus one.
return_order(p) ==
    Insert(p, "return_orders",
           {<<"return_no", Cardinality(RowsOf("return_orders")) + 1>>}, {}, TRUE)

\* The group with its links.  The code is the client's or the number of groups
\* plus one, which a client may have chosen before; the retry after a collision
\* uses a session that has to be rolled back first, and raises.
merge_orders(p, code) == Insert(p, "merge_groups", {<<"code", code>>}, {}, FALSE)

GroupCodes == Keys \union {2, Cardinality(RowsOf("merge_groups")) + 1}

-----------------------------------------------------------------------------
(* Webhooks, notifications, labels and waybills                            *)

\* The usual status is that of an active target.
create_target(p, s) ==
    /\ "webhook_targets" \in Areas[area]
    /\ Unused # {}
    /\ Queue(p, {<<CHOOSE i \in Fresh(1) : TRUE,
                   Row("webhook_targets", {}, {}, s)>>},
             {}, {}, {}, TRUE)

update_target(p, i, s) == Update(p, "webhook_targets", i, "state", s)

delete_target(p, i) == Delete(p, "webhook_targets", i)

\* _do_dispatch: one row of the log for each active target, with what its POST
\* returned.  Nothing is kept of the POST when the commit fails, and the log of
\* a target survives it: its target_id is no foreign key.
dispatch_event(p) ==
    LET targets == {i \in RowsOf("webhook_targets") : db[i].state = Usual}
        n       == Cardinality(targets)
    IN  /\ "webhook_targets" \in Areas[area]
        /\ targets # {} /\ Cardinality(Unused) >= n
        /\ \E to \in Bijection(Fresh(n), targets), result \in [targets -> {"success", "failed"}] :
              Queue(p, {<<i, Row("webhook_delivery_logs", {}, {Ref("webhook_targets", to[i])},
                                 result[to[i]])>> : i \in Fresh(n)},
                    {}, {}, {}, TRUE)

\* _check_enabled asks the first preference found, in no particular order.
MayNotify ==
    LET prefs == RowsOf("notification_preferences")
    IN  prefs = {} \/ \E i \in prefs : db[i].state = Usual

\* In a session of its own; an e-mail that cannot be sent leaves no row.
send_notification(p) ==
    /\ MayNotify
    /\ Insert(p, "notifications", {}, {}, TRUE)

mark_read(p, i) == Update(p, "notifications", i, "state", "read")

mark_all_read(p) ==
    LET unread == {i \in RowsOf("notifications") : db[i].state = Usual}
    IN  /\ unread # {}
        /\ Queue(p, {}, {<<i, "state", "read">> : i \in unread}, {}, {}, TRUE)

\* DELETE of the preferences there are, INSERT of the new one.
update_preferences(p, s) ==
    /\ "notification_preferences" \in Areas[area]
    /\ Unused # {}
    /\ Queue(p, {<<CHOOSE i \in Fresh(1) : TRUE,
                   Row("notification_preferences", {}, {}, s)>>},
             {}, RowsOf("notification_preferences"), {}, TRUE)

create_template(p, k) == InsertIfFree(p, "label_templates", {<<"code", k>>}, {})

generate_barcode(p) == Insert(p, "barcode_records", {}, {}, TRUE)

record_scan(p) == Insert(p, "barcode_records", {}, {}, TRUE)

enqueue_mutation(p) == Insert(p, "pda_pending_mutations", {}, {}, TRUE)

\* Carrier, day and a hash of the order: one number for an order and a day.
generate_tracking_number(k) == <<"tracking_number", k>>

\* Not looked for, so an order whose waybill was voided gets no other that day.
create_waybill(p, k) ==
    Insert(p, "waybills", {generate_tracking_number(k)}, {}, FALSE)

void_waybill(p, i) ==
    /\ db[i].state # "voided"
    /\ Update(p, "waybills", i, "state", "voided")

\* A voided one too.
mark_printed(p, i) == Update(p, "waybills", i, "print_count", 1)

-----------------------------------------------------------------------------
(* The database                                                            *)

UniqueIn(s, d, i, j) ==
    \A k \in d[i].keys : (Uq(d[i].tab, k[1]) \in s /\ d[i].tab = d[j].tab)
                            => k \notin d[j].keys

ValidIn(s, d) ==
    /\ \A i, j \in Ids : i # j => UniqueIn(s, d, i, j)
    /\ \A i \in Ids : \A r \in d[i].refs :
          Fk(d[i].tab, r[1]) \in s => (r[2] \in Ids /\ d[r[2]].tab = r[1])

\* Foreign keys that are declared with ON DELETE CASCADE.
Cascading == {"user_roles", "role_permissions"}

\* Other columns than the status and the keys are not kept.
SetColumn(row, column, value) ==
    IF column = "state" THEN Row(row.tab, row.keys, row.refs, value)
    ELSE Row(row.tab,
             {IF k[1] = column THEN <<column, value>> ELSE k : k \in row.keys},
             row.refs, row.state)

\* The tables after the statements of a session whose queued writes are q.
After(q) ==
    LET gone  == q.del \union
                   {i \in Ids : /\ db[i].tab \in Cascading
                                /\ \E r \in db[i].refs : r[2] \in q.del}
        row(i) ==
          IF i \in gone THEN NoRow
          ELSE IF \E w \in q.put : w[1] = i
               THEN (CHOOSE w \in q.put : w[1] = i)[2]
          ELSE IF \E u \in q.upd : u[1] = i
               THEN LET u == CHOOSE u \in q.upd : u[1] = i
                    IN  SetColumn(db[i], u[2], u[3])
          ELSE Row(db[i].tab, db[i].keys,
                   {r \in db[i].refs : ~\E c \in q.cut : c[1] = i /\ c[2] = r[2]},
                   db[i].state)
    IN  [i \in Ids |-> row(i)]

\* An UPDATE of a row that is gone matches nothing: StaleDataError.
Matches(q) ==
    /\ \A u \in q.upd : db[u[1]] # NoRow
    /\ \A c \in q.cut : db[c[1]] # NoRow

Accepted(q) == Matches(q) /\ ValidIn(FreshSchema, After(q))

CatCommit(p) ==
    /\ req[p].open
    /\ Accepted(req[p])
    /\ db' = After(req[p])
    /\ dead' = dead \union {i \in Ids : db[i] # NoRow /\ db'[i] = NoRow}
    /\ req' = [req EXCEPT ![p] = Quiet]
    /\ raced' = {q \in Requests \ {p} : req[q].open}
    /\ UNCHANGED area

\* IntegrityError or StaleDataError: the session is rolled back.
CatRefused(p) ==
    /\ req[p].open
    /\ ~Accepted(req[p])
    /\ req' = [req EXCEPT ![p] = Quiet]
    /\ raced' = raced \ {p}
    /\ UNCHANGED <<area, db, dead>>

-----------------------------------------------------------------------------
Inserts(p) ==
    \/ \E k \in Keys :
          \/ create_warehouse(p, k)
          \/ create_role(p, k)
          \/ create_permission(p, k)
          \/ create_hub(p, k) \/ seed_hubs(p, k)
          \/ create_vendor(p, k)
          \/ create_invoice(p, k)
          \/ register_device(p, k)
          \/ transport_order(p, k)
          \/ create_template(p, k) \/ create_waybill(p, k)
          \/ \E m \in Keys :
                \/ register_user(p, k, m)
                \/ add_hub_connection(p, k, m)
                \/ seed_hub_connections(p, k, m)
          \/ \E w \in RowsOf("warehouses") : create_location(p, w, k)
          \/ \E w \in RowsOf("warehouses") \union {Unknown}, c \in BOOLEAN :
                create_transfer_order(p, w, c, k)
          \/ \E v \in RowsOf("vendors") \union {Unknown} : purchase_order(p, k, v)
          \/ \E i \in RowsOf("invoices") \union {Unknown} : create_credit_memo(p, k, i)
    \/ add_carrier_route(p) \/ seed_carrier_routes(p)
    \/ create_address(p) \/ create_freight_tier(p)
    \/ dispatch_event(p) \/ send_notification(p) \/ mark_all_read(p)
    \/ \E s \in {Usual, "paused"} : create_target(p, s)
    \/ \E s \in {Usual, "disabled"} : update_preferences(p, s)
    \/ generate_barcode(p) \/ record_scan(p) \/ enqueue_mutation(p)
    \/ return_order(p)
    \/ \E code \in GroupCodes : merge_orders(p, code)
    \/ \E t \in RowsOf("transport_orders") \union {Unknown} : create_pod(p, t)

Changes(p) ==
    \E i \in Ids :
       \/ \E k \in Keys : update_warehouse(p, i, k)
       \/ update_location(p, i) \/ update_role(p, i)
       \/ update_hub(p, i) \/ update_pod(p, i)
       \/ \E j \in Ids :
             \/ assign_role_to_user(p, i, j)
             \/ assign_permission_to_role(p, i, j)
             \/ i \in RowsOf("warehouses") /\ j \in RowsOf("locations")
                  /\ insert_inventory(p, i, j)
       \/ toggle_user_active(p, i)
       \/ delete_target(p, i) \/ \E s \in {Usual, "paused"} : update_target(p, i, s)
       \/ mark_read(p, i) \/ void_waybill(p, i) \/ mark_printed(p, i)
       \/ delete_warehouse(p, i) \/ delete_location(p, i)
       \/ delete_user(p, i) \/ delete_role(p, i)
       \/ remove_role_from_user(p, i) \/ remove_permission_from_role(p, i)
       \/ \E s \in {"online", "offline"} : update_device(p, i, s)
       \/ record_heartbeat(p, i) \/ record_sync(p, i)
       \/ create_session(p, i) \/ end_session(p, i)
       \/ create_exception(p, i) \/ resolve_exception(p, i)

CatNext ==
    \E p \in Requests : Inserts(p) \/ Changes(p) \/ CatCommit(p) \/ CatRefused(p)

CatSpec == CatInit /\ [][CatNext]_cat_vars

-----------------------------------------------------------------------------
(* Properties                                                              *)

CatTypeOK ==
    /\ area \in DOMAIN Areas
    /\ \A i \in Ids : db[i] = NoRow \/ db[i].tab \in Areas[area]
    /\ dead \subseteq {i \in Ids : db[i] = NoRow}
    /\ \A p \in Requests : ~req[p].open => req[p] = Quiet

\* The rows keep every unique key and every reference that the ORM classes
\* declare, that of a pair of hubs excepted, although the handlers look first and
\* insert later, and some do not look: the constraints that the revisions create
\* stop the second of two requests for one key, and a row for a parent that has
\* just been deleted.
RowsAreAsDeclared == ValidIn(Declared \ {HubKey}, db)

\* The rows keep all of them: HubConnection declares the index uq_hub_connections
\* on (from_hub_code, to_hub_code), unique, and add_hub_connection looks for the
\* pair before it inserts it.
DeclaredKeysHold == ValidIn(Declared, db)

\* A handler that looks for everything the constraints forbid is refused by
\* the database only when another request committed after it looked: its
\* look-up is the constraint's equal, not a part of it.
CarefulRefusedOnlyByRace ==
    [][\A p \in Requests :
          (req[p].open /\ req[p].careful /\ ~req'[p].open /\ db' = db)
             => p \in raced \/ Accepted(req[p])]_cat_vars

=============================================================================
