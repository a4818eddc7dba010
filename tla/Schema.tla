------------------------------- MODULE Schema -------------------------------
(***************************************************************************)
(* The database schema twice: as the ORM classes declare it (models.py)    *)
(* and as the Alembic revisions build it (alembic/versions/), the latter   *)
(* as the sequence of their operations, with the rules PostgreSQL applies  *)
(* to each.  Columns and plain indexes appear only where more than one     *)
(* revision touches them; a table's own go and come with it.               *)
(***************************************************************************)
EXTENDS Naturals, Sequences

\* The objects of a schema.
Tab(t)    == <<"table", t>>
Uq(t, c)  == <<"unique", t, c>>     \* a unique index or constraint on columns c
Fk(t, r)  == <<"fk", t, r>>         \* a foreign key of t that references r
Ix(t, c)  == <<"index", t, c>>
Col(t, c) == <<"column", t, c>>
Typ(n)    == <<"type", n>>          \* an enum type

\* What a table stands for: itself, its unique constraints, its references.
table(t, uniques, refs) ==
    {Tab(t)} \union {Uq(t, u) : u \in uniques} \union {Fk(t, r) : r \in refs}

-----------------------------------------------------------------------------
(* The ORM classes                                                         *)

auth_models ==
    {table("users", {"username", "email"}, {}),
     table("roles", {"code"}, {}),
     table("permissions", {"code"}, {}),
     table("user_roles", {"user_id+role_id"}, {"roles", "users"}),
     table("role_permissions", {"role_id+permission_id"},
           {"permissions", "roles"})}

barcode_models ==
    {table("barcode_records", {}, {}),
     table("label_templates", {"code"}, {})}

core_models ==
    {table("address_master", {}, {})}

outbox_models ==
    {table("outbox_events", {}, {})}

logistics_models ==
    {table("waybills", {"tracking_number"}, {})}

notification_models ==
    {table("notifications", {}, {}),
     table("notification_preferences", {}, {})}

pda_models ==
    {table("pda_pending_mutations", {}, {})}

webhook_models ==
    {table("webhook_targets", {}, {}),
     table("webhook_delivery_logs", {}, {})}

oms_models ==
    {table("orders", {"order_no"}, {"customers", "warehouses"}),
     table("order_status_logs", {}, {"orders", "users"}),
     table("merge_groups", {"code"}, {"warehouses"}),
     table("split_child_orders", {}, {"merge_groups", "orders"})}

shared_models ==
    {table("customers", {"code"}, {}),
     table("order_items", {}, {"orders", "skus"})}

master_models ==
    {table("warehouses", {"code"}, {}),
     table("locations", {"code"}, {"warehouses"}),
     table("skus", {"sku"}, {}),
     table("inventory", {}, {"locations", "skus", "warehouses"})}

movement_models ==
    {table("inventory_logs", {}, {"inventory", "users"}),
     table("reference_entities", {"reference_type+reference_id"}, {}),
     table("stock_movements", {}, {"locations", "skus", "warehouses"}),
     table("picking_waves", {"code"}, {"warehouses"})}

fulfilment_models ==
    {table("packing_records", {}, {"picking_waves"}),
     table("shipments", {}, {"orders", "packing_records", "warehouses"}),
     table("vendors", {"code"}, {}),
     table("addresses", {}, {}),
     table("purchase_orders", {"po_number"}, {"vendors"}),
     table("purchase_order_lines", {}, {"purchase_orders", "skus"})}

billing_models ==
    {table("invoices", {"invoice_number"}, {}),
     table("invoice_lines", {}, {"invoices"}),
     table("credit_memos", {"credit_memo_number"}, {"invoices"}),
     table("credit_memo_lines", {}, {"credit_memos"})}

transfer_models ==
    {table("transfer_orders", {"code"}, {"warehouses"}),
     table("transfer_order_lines", {}, {"skus", "transfer_orders"}),
     table("transfer_logs", {}, {"transfer_orders"})}

stock_in_models ==
    {table("stock_in", {}, {"vendors", "warehouses"}),
     table("stock_in_lines", {}, {"stock_in"})}

stock_out_models ==
    {table("stock_out", {}, {"warehouses"}),
     table("stock_out_lines", {}, {"stock_out"}),
     table("stock_inventory_logs", {}, {"users", "warehouses"})}

transport_models ==
    {table("transport_orders", {"transport_no"},
           {"carrier_configs", "shipments", "terminal_devices", "warehouses"}),
     table("tracking_events", {}, {"transport_orders", "users"}),
     table("pod_records", {"transport_order_id"}, {"transport_orders"})}

routing_models ==
    {table("carrier_configs", {"carrier_code"}, {}),
     table("transfer_hubs", {"code"}, {}),
     table("carrier_routes", {}, {})}

planning_models ==
    {table("transport_segments", {}, {"transport_orders"}),
     table("hub_connections", {"from_hub_code+to_hub_code"}, {}),
     table("route_plans", {"transport_order_id"}, {"transport_orders"})}

return_models ==
    {table("return_orders", {"return_no"}, {"transport_orders", "warehouses"}),
     table("transport_exceptions", {}, {"transport_orders"}),
     table("freight_tiers", {}, {})}

device_models ==
    {table("terminal_devices", {"code"}, {"warehouses"}),
     table("device_sessions", {"token"}, {"terminal_devices"}),
     table("sync_logs", {}, {"terminal_devices"})}

Declared ==
    UNION (auth_models \union barcode_models \union core_models
             \union outbox_models \union logistics_models
             \union notification_models \union pda_models
             \union webhook_models \union oms_models \union shared_models
             \union master_models \union movement_models
             \union fulfilment_models \union billing_models
             \union transfer_models \union stock_in_models
             \union stock_out_models
             \union transport_models \union routing_models
             \union planning_models
             \union return_models \union device_models)

\* The key of a pair of hubs.  Of the revisions, only the newest creates it.
HubKey == Uq("hub_connections", "from_hub_code+to_hub_code")

-----------------------------------------------------------------------------
(* The operations of a revision.  A revision is a sequence of steps: a     *)
(* step that fails makes the command fail, except that a best-effort step  *)
(* is rolled back to its SAVEPOINT instead.                                *)

create_table(t, uniques, refs, types) ==
    [do |-> "create_table", on |-> t, objs |-> table(t, uniques, refs),
     types |-> {Typ(n) : n \in types}]

drop_table(t) == [do |-> "drop_table", on |-> t, objs |-> {}, types |-> {}]

add(obj) == [do |-> "add", on |-> obj[2], objs |-> {obj}, types |-> {}]

drop(obj) == [do |-> "drop", on |-> obj[2], objs |-> {obj}, types |-> {}]

\* A column that is NOT NULL and has no default: refused by a table with rows.
add_required(obj) ==
    [do |-> "add_required", on |-> obj[2], objs |-> {obj}, types |-> {}]

\* DROP TYPE IF EXISTS.
drop_type(n) ==
    [do |-> "drop_type", on |-> n, objs |-> {}, types |-> {Typ(n)}]

\* DELETE of all but the oldest hub connection of each pair.
deduplicate == [do |-> "deduplicate", on |-> "hub_connections", objs |-> {},
                types |-> {}]

\* ALTER COLUMN ... TYPE without a USING clause.
alter_type(t, from, to) ==
    [do |-> "alter_type", on |-> t, objs |-> {}, types |-> {}, from |-> from, to |-> to]

Must(ops) == [i \in DOMAIN ops |-> [best |-> FALSE, ops |-> <<ops[i]>>]]

Try(ops) == <<[best |-> TRUE, ops |-> ops]>>

Adds(objs) == Must([i \in DOMAIN objs |-> add(objs[i])])

Drops(objs) == Must([i \in DOMAIN objs |-> drop(objs[i])])

DropTables(names) == Must([i \in DOMAIN names |-> drop_table(names[i])])

DropTypes(names) == Must([i \in DOMAIN names |-> drop_type(names[i])])

-----------------------------------------------------------------------------
(* The revisions, oldest first                                             *)

full_schema_reference ==
  <<create_table("barcode_records", {}, {}, {}),
    create_table("carrier_configs", {}, {}, {"carriercode"}),
    create_table("carrier_routes", {}, {}, {"carriercode"}),
    create_table("customers", {"code"}, {}, {}),
    create_table("freight_tiers", {}, {}, {"carriercode", "freightrule"}),
    create_table("hub_connections", {}, {}, {}),
    create_table("label_templates", {"code"}, {}, {}),
    create_table("permissions", {"code"}, {}, {}),
    create_table("reference_entities", {"reference_type+reference_id"}, {},
                 {}),
    create_table("roles", {"code"}, {}, {})>>

full_schema_warehouse ==
  <<create_table("skus", {"sku"}, {}, {}),
    create_table("transfer_hubs", {"code"}, {},
                 {"hubstatus", "transferhubtype"}),
    create_table("users", {"email", "username"}, {}, {}),
    create_table("warehouses", {"code"}, {},
                 {"warehousestatus", "warehousetype"}),
    create_table("locations", {"code"}, {"warehouses"},
                 {"locationstatus", "locationtype"}),
    create_table("merge_groups", {"code"}, {"warehouses"}, {}),
    add(Col("merge_groups", "is_deleted")),
    add(Col("merge_groups", "deleted_at")),
    add(Ix("merge_groups", "is_deleted")),
    create_table("orders", {"order_no"}, {"customers", "warehouses"},
                 {"orderpriority", "orderstatus"}),
    create_table("picking_waves", {"code"}, {"warehouses"},
                 {"pickingwavepriority", "pickingwavetype"})>>

full_schema_stock ==
  <<create_table("role_permissions", {"role_id+permission_id"},
                 {"permissions", "roles"}, {}),
    create_table("terminal_devices", {"code"}, {"warehouses"},
                 {"devicestatus", "platformtype", "terminaldevicetype"}),
    create_table("user_roles", {"user_id+role_id"}, {"roles", "users"}, {}),
    create_table("device_sessions", {"token"}, {"terminal_devices"},
                 {"sessionstatus"}),
    create_table("inventory", {}, {"locations", "skus", "warehouses"}, {}),
    add(Ix("inventory", "batch_no+expiry_date")),
    create_table("order_items", {}, {"orders", "skus"}, {}),
    create_table("order_status_logs", {}, {"orders", "users"}, {}),
    create_table("packing_records", {}, {"picking_waves"}, {})>>

full_schema_shipping ==
  <<create_table("split_child_orders", {}, {"merge_groups", "orders"}, {}),
    create_table("stock_movements", {}, {"locations", "skus", "warehouses"},
                 {"stockmovementtype"}),
    create_table("sync_logs", {}, {"terminal_devices"},
                 {"synclogstatus", "synclogtype"}),
    create_table("inventory_logs", {}, {"inventory", "users"},
                 {"inventorychangetype"}),
    create_table("shipments", {}, {"orders", "packing_records", "warehouses"},
                 {"shipmentstatus"}),
    add(Uq("carrier_configs", "id")),
    add(Uq("freight_tiers", "id")),
    create_table("transport_orders", {"transport_no"},
                 {"carrier_configs", "shipments", "terminal_devices",
                  "warehouses"},
                 {"carriercode", "carrierservicetype", "transportstatus",
                  "transporttype"})>>

full_schema_transport ==
  <<create_table("pod_records", {"transport_order_id"}, {"transport_orders"},
                 {"podsignature"}),
    create_table("return_orders", {"return_no"},
                 {"transport_orders", "warehouses"}, {"carriercode",
                  "returnreason", "returnstatus"}),
    create_table("route_plans", {"transport_order_id"}, {"transport_orders"},
                 {"routeplanstatus", "routeplantype"}),
    create_table("tracking_events", {}, {"transport_orders", "users"},
                 {"trackingeventtype"}),
    create_table("transport_exceptions", {}, {"transport_orders"},
                 {"exceptionstatus", "exceptiontype"}),
    create_table("transport_segments", {}, {"transport_orders"},
                 {"carriercode", "transportsegmentstatus"})>>

\* The indexes that a later revision drops and restores are dropped by name.
full_schema_dropped ==
  <<"transport_segments", "transport_exceptions", "tracking_events",
    "route_plans", "return_orders", "pod_records", "transport_orders",
    "shipments", "inventory_logs", "sync_logs", "stock_movements",
    "split_child_orders", "packing_records", "order_status_logs",
    "order_items", "inventory", "device_sessions", "user_roles",
    "terminal_devices", "role_permissions", "picking_waves", "orders",
    "merge_groups", "locations", "warehouses", "users", "transfer_hubs",
    "skus", "roles", "reference_entities", "permissions",
    "label_templates", "hub_connections", "freight_tiers", "customers",
    "carrier_routes", "carrier_configs", "barcode_records">>

AddTimestamps(t) == <<add(Col(t, "created_at")), add(Col(t, "updated_at"))>>

\* Mutant: the code of a vendor is not unique.
missing_vendor_code ==
  <<create_table("vendors", {}, {}, {}),
    create_table("addresses", {}, {}, {}),
    create_table("purchase_orders", {"po_number"}, {"vendors"}, {}),
    create_table("purchase_order_lines", {}, {"purchase_orders", "skus"}, {})>>
    \o AddTimestamps("purchase_order_lines")

missing_purchase_tables ==
  <<create_table("vendors", {"code"}, {}, {}),
    create_table("addresses", {}, {}, {}),
    create_table("purchase_orders", {"po_number"}, {"vendors"}, {}),
    create_table("purchase_order_lines", {}, {"purchase_orders", "skus"}, {})>>
    \o AddTimestamps("purchase_order_lines")

missing_billing_tables ==
  <<create_table("invoices", {"invoice_number"}, {}, {}),
    create_table("invoice_lines", {}, {"invoices"}, {}),
    create_table("credit_memos", {"credit_memo_number"}, {"invoices"}, {}),
    create_table("credit_memo_lines", {}, {"credit_memos"}, {}),
    create_table("address_master", {}, {}, {})>>
    \o AddTimestamps("invoice_lines") \o AddTimestamps("credit_memo_lines")

missing_tables_dropped ==
  <<"credit_memo_lines", "credit_memos", "invoice_lines", "invoices",
    "purchase_order_lines", "purchase_orders", "addresses", "vendors",
    "address_master">>

pda_table ==
  <<create_table("pda_pending_mutations", {}, {}, {})>>

notification_tables ==
  <<create_table("notifications", {}, {},
                 {"notificationchannel", "notificationtype"}),
    create_table("notification_preferences", {}, {},
                 {"notificationchannel", "notificationtype"})>>

webhook_tables ==
  <<create_table("webhook_targets", {}, {}, {"webhookstatus"}),
    create_table("webhook_delivery_logs", {}, {}, {"deliverystatus"})>>

\* Mutant: the lines of a stock-out do not reference it.
stock_tables_unlinked ==
  <<create_table("stock_in", {}, {"vendors", "warehouses"}, {}),
    create_table("stock_in_lines", {}, {"stock_in"}, {}),
    create_table("stock_out", {}, {"warehouses"}, {}),
    create_table("stock_out_lines", {}, {}, {}),
    create_table("stock_inventory_logs", {}, {"users", "warehouses"}, {})>>

stock_tables ==
  <<create_table("stock_in", {}, {"vendors", "warehouses"}, {}),
    create_table("stock_in_lines", {}, {"stock_in"}, {}),
    create_table("stock_out", {}, {"warehouses"}, {}),
    create_table("stock_out_lines", {}, {"stock_out"}, {}),
    create_table("stock_inventory_logs", {}, {"users", "warehouses"}, {})>>

transfer_tables ==
  <<create_table("outbox_events", {}, {}, {}),
    create_table("waybills", {"tracking_number"}, {}, {}),
    create_table("transfer_orders", {"code"}, {"warehouses"},
                 {"transferitemtype", "transferstatus"}),
    create_table("transfer_logs", {}, {"transfer_orders"}, {}),
    create_table("transfer_order_lines", {}, {"skus", "transfer_orders"},
                 {"transferitemtype"})>>

performance_indexes ==
  <<Ix("orders", "created_at"), Ix("stock_movements", "sku_id"),
    Ix("stock_movements", "created_at")>>

\* What the second half of the revision reconciles, one SAVEPOINT each.
\* Changes of a column's type or nullability are left out: they touch no object
\* named here, and those that share a step with others are taken to succeed.
DropTimestamps(t) ==
    Try(<<drop(Col(t, "updated_at"))>>) \o Try(<<drop(Col(t, "created_at"))>>)

transfer_reconciled ==
    Try(<<drop(Fk("transport_orders", "carrier_configs"))>>)
      \o Try(<<drop(Uq("carrier_configs", "id"))>>)
      \o DropTimestamps("credit_memo_lines")
      \o Try(<<drop(Uq("freight_tiers", "id"))>>)
      \o Try(<<drop(Ix("inventory", "batch_no+expiry_date"))>>)
      \o DropTimestamps("invoice_lines")
      \o Try(<<drop(Ix("merge_groups", "is_deleted"))>>)
      \o Try(<<drop(Col("merge_groups", "is_deleted"))>>)
      \o Try(<<drop(Col("merge_groups", "deleted_at"))>>)
      \o Try(<<drop(Ix("orders", "created_at"))>>)
      \o DropTimestamps("purchase_order_lines")
      \o Try(<<add(Col("return_orders", "shipment_status"))>>)
      \o Try(<<add(Uq("role_permissions", "role_id+permission_id"))>>)
      \o Try(<<drop(Ix("stock_movements", "created_at"))>>)
      \o Try(<<drop(Ix("stock_movements", "sku_id"))>>)
      \o Try(<<add(Uq("user_roles", "user_id+role_id"))>>)
      \o Try(<<add(Col("vendors", "is_active"))>>)

transfer_undone ==
    Try(<<drop(Col("vendors", "is_active"))>>)
      \o Try(<<drop(Uq("user_roles", "user_id+role_id"))>>)
      \o Try(<<add(Ix("stock_movements", "sku_id")),
               add(Ix("stock_movements", "created_at"))>>)
      \o Try(<<drop(Uq("role_permissions", "role_id+permission_id")),
               drop(Col("return_orders", "shipment_status"))>>)
      \o Try(AddTimestamps("purchase_order_lines"))
      \o Try(<<add(Ix("orders", "created_at"))>>)
      \o Try(<<add(Col("merge_groups", "deleted_at")),
               add_required(Col("merge_groups", "is_deleted")),
               add(Ix("merge_groups", "is_deleted"))>>)
      \o Try(AddTimestamps("invoice_lines"))
      \o Try(<<add(Ix("inventory", "batch_no+expiry_date"))>>)
      \o Try(<<add(Uq("freight_tiers", "id"))>>)
      \o Try(AddTimestamps("credit_memo_lines"))
      \o Try(<<add(Uq("carrier_configs", "id"))>>)
      \o Try(<<drop_table("transfer_order_lines"),
               drop_table("transfer_logs"), drop_table("transfer_orders"),
               drop_table("waybills"), drop_table("outbox_events")>>)

\* Alembic knows postgresql_using; the revision says postgres_using, which it
\* ignores: the first statement has no USING clause.
fix_tms_schema_drift ==
  <<alter_type("transport_orders", "varchar", "date"),
    deduplicate, add(HubKey)>>

fix_undone ==
  <<drop(HubKey),
    alter_type("transport_orders", "date", "varchar")>>

Revisions ==
  <<[up   |-> Must(full_schema_reference \o full_schema_warehouse
                     \o full_schema_stock \o full_schema_shipping
                     \o full_schema_transport),
     down |-> Drops(<<Ix("inventory", "batch_no+expiry_date"),
                      Ix("merge_groups", "is_deleted")>>)
                \o DropTables(full_schema_dropped)],
    [up   |-> Must(missing_purchase_tables \o missing_billing_tables),
     down |-> DropTables(missing_tables_dropped)],
    [up   |-> Must(pda_table),
     down |-> DropTables(<<"pda_pending_mutations">>)],
    [up   |-> Must(notification_tables),
     down |-> DropTables(<<"notification_preferences", "notifications">>)
                \o DropTypes(<<"notificationtype", "notificationchannel">>)],
    [up   |-> Must(webhook_tables),
     down |-> DropTables(<<"webhook_delivery_logs", "webhook_targets">>)
                \o DropTypes(<<"webhookstatus", "deliverystatus">>)],
    [up   |-> Adds(performance_indexes),
     down |-> Drops(performance_indexes)],
    [up   |-> Must(stock_tables),
     down |-> DropTables(<<"stock_inventory_logs", "stock_out_lines",
                           "stock_out", "stock_in_lines", "stock_in">>)],
    [up   |-> Must(transfer_tables) \o transfer_reconciled,
     down |-> transfer_undone],
    [up   |-> Must(fix_tms_schema_drift),
     down |-> Must(fix_undone)]>>

HeadRevision == Len(Revisions)

\* The last revision that PostgreSQL accepts: 26f0642a5601.
LastRevision == HeadRevision - 1

-----------------------------------------------------------------------------
(* The database.  st carries the schema, the enum types created by the     *)
(* running command (SQLAlchemy creates each once per command, and without  *)
(* looking whether it is there already), what the tables contain as far as *)
(* an operation depends on it, and whether every step succeeded so far.    *)

Twins == "hub_connection_twins"

Rows == {"merge_groups", Twins}

\* The tables whose primary key is not the column id alone.
CompositeKey == {"carrier_configs", "freight_tiers"}

Refers(s, t) == {r \in s : r[1] = "fk" /\ r[3] = t /\ r[2] # t}

OkAdd(st, op) ==
    /\ Tab(op.on) \in st.schema
    /\ op.objs \intersect st.schema = {}
    /\ op.objs = {HubKey} => Twins \notin st.rows

OkDrop(st, op) ==
    /\ op.objs \subseteq st.schema
    /\ (op.objs = {Uq(op.on, "id")}) => Refers(st.schema, op.on) = {}

\* The casts that ALTER COLUMN ... TYPE makes by itself, whatever the rows are.
\* From varchar to date there is none: "cannot be cast automatically".
AssignmentCasts == {<<"date", "varchar">>}

OkCreateTable(st, op) ==
    /\ Tab(op.on) \notin st.schema
    /\ \A r \in op.objs :
          r[1] = "fk" => /\ Tab(r[3]) \in st.schema \union op.objs
                         /\ r[3] \in CompositeKey => Uq(r[3], "id") \in st.schema
    /\ op.types \intersect st.schema \subseteq st.created

Ok(st, op) ==
    \/ op.do = "create_table" /\ OkCreateTable(st, op)
    \/ op.do = "drop_table" /\ Tab(op.on) \in st.schema
                            /\ Refers(st.schema, op.on) = {}
    \/ op.do = "add" /\ OkAdd(st, op)
    \/ op.do = "add_required" /\ OkAdd(st, op) /\ op.on \notin st.rows
    \/ op.do = "drop" /\ OkDrop(st, op)
    \/ op.do \in {"drop_type", "deduplicate"}
    \/ op.do = "alter_type" /\ Tab(op.on) \in st.schema
                            /\ <<op.from, op.to>> \in AssignmentCasts

\* The objects that a dropped table takes along; the types stay.
OfTable(s, t) == {x \in s : x[1] # "type" /\ x[2] = t}

Added(op) ==
    IF op.do \in {"create_table", "add", "add_required"} THEN op.objs \union op.types ELSE {}

Removed(s, op) ==
    IF op.do = "drop_table" THEN OfTable(s, op.on)
    ELSE IF op.do = "drop" THEN op.objs
    ELSE IF op.do = "drop_type" THEN op.types ELSE {}

\* The rows an operation deletes.
Emptied(op) ==
    IF op.do = "deduplicate" \/ (op.do = "drop_table" /\ op.on = "hub_connections")
    THEN {Twins}
    ELSE IF op.do = "drop_table" THEN {op.on} ELSE {}

Effect(st, op) ==
    [ok      |-> TRUE,
     created |-> st.created \union (IF op.do = "create_table" THEN op.types ELSE {}),
     schema  |-> (st.schema \ Removed(st.schema, op)) \union Added(op),
     rows    |-> st.rows \ Emptied(op)]

Failed(st) ==
    [ok |-> FALSE, created |-> st.created, schema |-> st.schema, rows |-> st.rows]

\* The operations of one step, until one fails.
RunOps(st0, ops) ==
    LET run[n \in 0..Len(ops)] ==
          IF n = 0 THEN st0
          ELSE LET st == run[n - 1]
               IN  IF ~st.ok THEN st
                   ELSE IF Ok(st, ops[n]) THEN Effect(st, ops[n]) ELSE Failed(st)
    IN  run[Len(ops)]

\* Mutant: without a SAVEPOINT.
RunStepStrict(st, step) == RunOps(st, step.ops)

\* _best_effort: a failed step leaves no trace.
RunStep(st, step) ==
    LET done == RunOps(st, step.ops)
    IN  IF step.best /\ ~done.ok THEN st ELSE done

RunSteps(st0, steps) ==
    LET run[n \in 0..Len(steps)] ==
          IF n = 0 THEN st0
          ELSE LET st == run[n - 1]
               IN  IF st.ok THEN RunStep(st, steps[n]) ELSE st
    IN  run[Len(steps)]

Start(s, rows) == [ok |-> TRUE, created |-> {}, schema |-> s, rows |-> rows]

\* alembic upgrade: all revisions after from, up to to, in one transaction.
Upgraded(s, rows, from, to) ==
    LET run[n \in from..to] ==
          IF n = from THEN Start(s, rows)
          ELSE LET st == run[n - 1]
               IN  IF st.ok THEN RunSteps(st, Revisions[n].up) ELSE st
    IN  run[to]

\* alembic downgrade -1.
Downgraded(s, rows, from) == RunSteps(Start(s, rows), Revisions[from].down)

\* The schema of a database that was built at once, as far as the revisions can
\* be applied.
FreshStart == Upgraded({}, {}, 0, LastRevision)
FreshSchema == FreshStart.schema

=============================================================================
