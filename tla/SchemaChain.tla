-------------------- MODULE SchemaChain --------------------
(***************************************************************************)
(* The tables as the migrations 0001 to 0006 create them, one definition   *)
(* per CreateModel, and the operations of each migration on the database.  *)
(***************************************************************************)
EXTENDS Fields

CONSTANT AUTH_USER_MODEL  \* the table of the project's users

\* The columns every CreateModel repeats.
Base ==
  [id |-> Unique(Uuid), created_at |-> Indexed(Time), updated_at |-> Time]

\* The columns the six CreateModels of 0004 repeat.
Rule ==
  Base ++
  [index_name |-> Indexed(Char(200)), tenant_id |-> Indexed(Char(200)),
   query_pattern |-> Char(500), match_type |-> Char(20),
   is_active |-> Indexed(Boolean), priority |-> Indexed(Integer),
   starts_at |-> Nullable(Time), ends_at |-> Nullable(Time),
   hit_count |-> Positive]

SearchIndex ==
  TableWith(Base ++
  [name |-> Indexed(Char(100)), tenant_id |-> Indexed(Char(100)),
   engine_uid |-> Unique(Char(255)), primary_key_field |-> Char(100),
   settings |-> Json, document_count |-> Positive, is_synced |-> Boolean,
   last_synced_at |-> Nullable(Time), is_active |-> Indexed(Boolean)],
  [unique_together |-> <<"tenant_id", "name">>],
  None)

IndexSyncLog ==
  Table(Base ++
  [action |-> Char(50), status |-> Char(20), detail |-> Text,
   task_uid |-> Char(100), completed_at |-> Nullable(Time),
   index |-> Ref("SearchIndex")])

SearchQueryLog ==
  Table(Base ++
  [index_name |-> Indexed(Char(200)), query |-> Char(500), filters |-> Json,
   sort |-> Json, hit_count |-> Integer, processing_time_ms |-> Integer,
   tenant_id |-> Indexed(Char(200)), is_zero_result |-> Indexed(Boolean),
   metadata |-> Json, user |-> Nullable(Ref(AUTH_USER_MODEL))])

SearchQueryAggregate ==
  Table(Base ++
  [index_name |-> Indexed(Char(200)), query |-> Char(500),
   date |-> Indexed(Date), tenant_id |-> Indexed(Char(200)),
   total_count |-> Positive, zero_result_count |-> Positive,
   total_processing_time_ms |-> PositiveBig])

BoostRule ==
  Table(Rule ++
  [field |-> Char(200), field_value |-> Char(500), operator |-> Char(20),
   boost_weight |-> Decimal(6, 3)])

QueryRedirect ==
  Table(Rule ++
  [destination_url |-> Char(2000), destination_type |-> Char(20),
   preserve_query |-> Boolean, http_status |-> Integer])

QueryRewrite ==
  Table(Rule ++
  [rewritten_query |-> Char(500), apply_filters |-> Json,
   apply_sort |-> Json, merge_filters |-> Boolean])

SearchBanner ==
  Table(Rule ++
  [title |-> Char(200), content |-> Text, image_url |-> Char(2000),
   link_url |-> Char(2000), link_text |-> Char(200), position |-> Char(20),
   banner_type |-> Char(20), metadata |-> Json])

SearchPin ==
  Table(Rule ++
  [document_id |-> Char(255), position |-> Integer, label |-> Char(200)])

ZeroResultFallback ==
  Table(Rule ++
  [fallback_type |-> Char(30), fallback_value |-> Char(2000),
   fallback_filters |-> Json, max_retries |-> Positive])

SearchClick ==
  Table(Base ++
  [index_name |-> Indexed(Char(200)), query |-> Char(500),
   document_id |-> Indexed(Char(500)), position |-> PositiveSmall,
   tenant_id |-> Indexed(Char(200)), metadata |-> Json])

SearchClickAggregate ==
  Table(Base ++
  [index_name |-> Indexed(Char(200)), query |-> Char(500),
   document_id |-> Indexed(Char(500)), date |-> Indexed(Date),
   click_count |-> Positive, tenant_id |-> Indexed(Char(200))])

-----------------------------------------------------------------------------

Migration0001(db) ==
  CreateModels(db, [SearchIndex |-> SearchIndex, IndexSyncLog |-> IndexSyncLog])

Migration0002(db) ==
  LET created == CreateModels(db, [SearchQueryLog |-> SearchQueryLog])
  IN  AddIndexes(created, "SearchQueryLog",
        [icv_search__index_n_zero_idx |-> <<"index_name", "is_zero_result">>,
         icv_search__index_n_tenant_idx |-> <<"index_name", "tenant_id", "created_at">>])

Migration0003(db) ==
  LET created == CreateModels(db, [SearchQueryAggregate |-> SearchQueryAggregate])
      unique  == AddConstraint(created, "SearchQueryAggregate", "icv_search_agg_unique",
                               <<"index_name", "query", "date", "tenant_id">>)
  IN  AddIndexes(unique, "SearchQueryAggregate",
        [icv_srch_agg_idx_dt |-> <<"index_name", "date">>,
         icv_srch_agg_tnt_dt |-> <<"index_name", "tenant_id", "date">>])

\* slip: the indexes of the query log keep the names 0002 gave them.
Migration0004Unrenamed(db) ==
  AddConstraint(
    CreateModels(db,
      [BoostRule |-> BoostRule, QueryRedirect |-> QueryRedirect,
       QueryRewrite |-> QueryRewrite, SearchBanner |-> SearchBanner,
       SearchPin |-> SearchPin, ZeroResultFallback |-> ZeroResultFallback]),
    "SearchPin", "icv_search_pin_unique",
    <<"index_name", "tenant_id", "query_pattern", "document_id">>)

Migration0004(db) ==
  LET created == CreateModels(db,
        [BoostRule |-> BoostRule, QueryRedirect |-> QueryRedirect,
         QueryRewrite |-> QueryRewrite, SearchBanner |-> SearchBanner,
         SearchPin |-> SearchPin, ZeroResultFallback |-> ZeroResultFallback])
      zero    == RenameIndex(created, "SearchQueryLog",
                   "icv_search__index_n_zero_idx", "icv_search__index_n_08e7ef_idx")
      tenant  == RenameIndex(zero, "SearchQueryLog",
                   "icv_search__index_n_tenant_idx", "icv_search__index_n_09bc9e_idx")
  IN  AddConstraint(tenant, "SearchPin", "icv_search_pin_unique",
                    <<"index_name", "tenant_id", "query_pattern", "document_id">>)

Migration0005(db) ==
  LET created == CreateModels(db, [SearchClick |-> SearchClick,
                                   SearchClickAggregate |-> SearchClickAggregate])
      clicks  == AddIndexes(created, "SearchClick",
                   [icv_srch_clk_qry_dt |-> <<"index_name", "query", "created_at">>,
                    icv_srch_clk_doc |-> <<"index_name", "document_id">>])
      unique  == AddConstraint(clicks, "SearchClickAggregate", "icv_search_click_agg_unique",
                   <<"index_name", "query", "document_id", "date", "tenant_id">>)
  IN  AddIndexes(unique, "SearchClickAggregate",
        [icv_srch_clkagg_qry_dt |-> <<"index_name", "query", "date">>,
         icv_srch_clkagg_tnt_dt |-> <<"index_name", "date", "tenant_id">>])

Migration0006(db) == AlterField(db, "SearchIndex", "settings", Json)

=============================================================================
