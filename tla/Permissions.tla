---------------------------- MODULE Permissions -----------------------------
(***************************************************************************)
(* The permission catalogue, the system roles and what every endpoint of   *)
(* the API asks for.  The three tables of the source have to agree: a code *)
(* that one of them spells differently is silently never granted.          *)
(* A permission code resource:action is the pair of its two words, and an  *)
(* endpoint is the pair of its handler's name and the code its             *)
(* require_permission is given.                                            *)
(***************************************************************************)
EXTENDS FiniteSets

Resource == {"customers", "orders", "products", "inventory", "payments", "delivery",
             "conversations", "ai", "employees", "roles", "settings", "analytics", "audit"}

CrudAction == {"view", "create", "update", "delete", "export"}

\* The codes of one resource.
On(resource, actions) == {resource} \X actions

Special ==
    UNION {{<<"system_access", "all">>},
           On("roles", {"manage_roles"}),
           On("settings", {"manage_settings", "manage_integrations"}),
           On("products", {"manage_products"}),
           On("delivery", {"manage_delivery"}),
           On("employees", {"manage_employees"}),
           On("orders", {"approve", "assign", "refund"}),
           On("payments", {"approve"}),
           On("conversations", {"transfer_chat"}),
           On("ai", {"override_ai", "edit_prompt"}),
           On("analytics", {"view_reports", "view_cost", "view_profit"})}

AllCodes == (Resource \X CrudAction) \cup Special

Chats == On("conversations", {"view", "create", "update", "transfer_chat"})
Figures == On("analytics", {"view_reports", "view_cost", "view_profit"})

\* What each system role is given by the seed.
SystemRole ==
    [r \in {"Super Admin", "Owner", "General Manager", "Sales Manager", "Operator", "Support",
            "Warehouse", "Courier Manager", "Finance", "Marketing", "Content Manager",
            "AI Manager", "Analyst", "Auditor", "Guest"} |->
        CASE r \in {"Super Admin", "Owner"} -> AllCodes
          [] r = "General Manager" ->
                UNION {Chats, Figures, On("settings", {"manage_settings"}),
                       On("products", {"manage_products", "view"}), On("customers", {"view"}),
                       On("orders", {"view", "approve", "refund"}), On("payments", {"approve"}),
                       On("ai", {"override_ai"}), On("delivery", {"manage_delivery"})}
          [] r = "Sales Manager" ->
                UNION {Chats, On("products", {"manage_products", "view"}), On("customers", {"view"}),
                       On("orders", {"view", "create", "update"}), On("ai", {"override_ai"})}
          [] r = "Operator" ->
                UNION {Chats, On("products", {"view"}), On("customers", {"view"}),
                       On("orders", {"view"}), On("ai", {"override_ai"})}
          [] r = "Support" -> UNION {Chats, On("customers", {"view"}), On("orders", {"view"})}
          [] r = "Warehouse" ->
                UNION {On("products", {"view"}), On("inventory", {"view", "update"}),
                       On("orders", {"view"}), On("delivery", {"view", "manage_delivery"})}
          [] r = "Courier Manager" ->
                On("orders", {"view"}) \cup On("delivery", {"view", "manage_delivery"})
          [] r = "Finance" ->
                UNION {Figures, On("orders", {"view", "approve", "refund"}),
                       On("payments", {"view", "approve"})}
          [] r = "Marketing" ->
                UNION {On("products", {"view"}), On("customers", {"view"}),
                       On("analytics", {"view_reports"})}
          [] r = "Content Manager" -> On("products", {"view", "create", "update", "manage_products"})
          [] r = "AI Manager" ->
                UNION {On("ai", {"view", "override_ai", "edit_prompt"}),
                       On("conversations", {"view"}), On("products", {"view"})}
          [] r = "Analyst" -> Figures \cup On("orders", {"view"})
          [] r = "Auditor" ->
                UNION {Figures, On("orders", {"view"}), On("payments", {"view"}),
                       On("customers", {"view"}), On("audit", {"view"})}
          [] r = "Guest" -> {}]

-----------------------------------------------------------------------------
(* The endpoints of each router.  The webhooks, the checkout pages, login, *)
(* refresh and logout ask for no permission, and /auth/me and the file     *)
(* uploads only for a user.                                                *)

Needs(handlers, resource, action) == handlers \X {<<resource, action>>}

OrdersRouter ==
    UNION {Needs({"create_order"}, "orders", "create"),
           Needs({"list_orders", "get_order"}, "orders", "view"),
           Needs({"update_order", "replace_order_items", "cancel_order", "set_order_status"}, "orders", "update")}

PaymentsRouter ==
    UNION {Needs({"list_cards", "get_card", "upload_receipt", "submit_payment", "list_payments",
                  "get_payment"}, "payments", "view"),
           Needs({"create_card", "update_card", "delete_card"}, "settings", "manage_settings"),
           Needs({"approve_payment", "reject_payment"}, "payments", "approve")}

DeliveryRouter ==
    UNION {Needs({"create_checkout_link"}, "orders", "update"),
           Needs({"get_delivery"}, "delivery", "view"),
           Needs({"update_delivery_status"}, "delivery", "manage_delivery")}

InboxRouter ==
    UNION {Needs({"list_conversations", "get_conversation", "list_messages", "mark_read"}, "conversations", "view"),
           Needs({"send_message"}, "conversations", "create"),
           Needs({"transfer_chat"}, "conversations", "transfer_chat"),
           Needs({"assign", "ai_control", "update_customer", "delete_conversation", "delete_customer"},
                 "conversations", "update")}

CatalogRouter ==
    UNION {Needs({"list_reference", "get_reference", "list_categories", "get_category",
                  "list_category_boxes", "get_box", "list_combos", "get_combo",
                  "list_instagram_media", "list_all_instagram_media", "get_instagram_media",
                  "low_stock_products", "list_products", "get_product", "search",
                  "semantic_search"}, "products", "view"),
           Needs({"create_reference", "create_category", "create_category_box", "create_combo",
                  "create_product", "add_variant"}, "products", "create"),
           Needs({"update_reference", "update_category", "update_box", "adjust_box_stock",
                  "add_box_media", "delete_box_media", "update_combo", "add_combo_item",
                  "remove_combo_item", "add_instagram_media", "update_instagram_media",
                  "update_product", "update_variant", "adjust_stock", "add_media",
                  "delete_media"}, "products", "update"),
           Needs({"delete_reference", "delete_category", "delete_box", "delete_combo",
                  "delete_instagram_media", "delete_product"}, "products", "delete")}

AiRouter ==
    UNION {Needs({"create_knowledge", "update_knowledge", "delete_knowledge", "update_ai_prompt",
                  "reset_ai_prompt"}, "ai", "edit_prompt"),
           Needs({"list_knowledge", "get_prompt", "list_ai_prompts", "get_ai_prompt"}, "ai", "view"),
           Needs({"agent_respond"}, "ai", "override_ai")}

RbacRouter ==
    UNION {Needs({"list_permissions", "list_roles", "get_role"}, "roles", "view"),
           Needs({"create_role", "set_role_permissions", "delete_role"}, "roles", "manage_roles"),
           Needs({"list_users"}, "employees", "view"),
           Needs({"create_user", "update_user", "set_user_roles", "delete_user"}, "employees", "manage_employees")}

SettingsRouter ==
    Needs({"list_settings", "get_setting"}, "settings", "view")
        \cup Needs({"update_setting"}, "settings", "manage_settings")

IntegrationsRouter ==
    Needs({"list_configs", "upsert_config", "update_config", "delete_config", "list_events",
           "telegram_set_webhook", "telegram_webhook_info", "telegram_get_me",
           "telegram_delete_webhook", "instagram_subscribe"}, "settings", "manage_integrations")

AnalyticsRouter == Needs({"dashboard", "top_products"}, "analytics", "view_reports")

AuditRouter == Needs({"list_audit"}, "audit", "view")

NotificationsRouter == Needs({"list_notifications"}, "payments", "view")

Endpoint ==
    UNION {OrdersRouter, PaymentsRouter, DeliveryRouter, InboxRouter, CatalogRouter, AiRouter,
           RbacRouter, SettingsRouter, IntegrationsRouter, AnalyticsRouter, AuditRouter,
           NotificationsRouter}

\* The three tables agree: the code that guards an endpoint is a permission, and so is every code
\* that a system role is given.  The seed skips a code it does not know without a word.
ASSUME TablesAgree ==
    /\ \A e \in Endpoint : e[2] \in AllCodes
    /\ \A r \in DOMAIN SystemRole : SystemRole[r] \subseteq AllCodes

\* The code that require_permission is given at a handler.
NeededFor(handler) == (CHOOSE e \in Endpoint : e[1] = handler)[2]
=============================================================================
