SPECIFICATION Spec
CONSTANTS
  Classes <- MCClasses
  gpc_nums <- MCgpc_nums
  MAX_MANAGED_EVENTS <- MCMAX_MANAGED_EVENTS
  core_num = 3
  dsu_cluster_size = 2
  dmc_num = 2
  builtin_events <- MCbuiltin_events
  vendor_id = 65
  part_id = 1
  has_dsu = TRUE
  has_dmc = TRUE
  metric_builtin <- MCmetric_builtin
  product_names <- MCproduct_names
  m_product_configuration <- MCm_product_configuration
  m_product_alias <- MCm_product_alias
  m_product_metrics <- MCm_product_metrics
  m_product_groups_metrics <- MCm_product_groups_metrics
  m_product_events <- MCm_product_events
  dsu_evt_mask <- MCdsu_evt_mask
  total_gpc_num = 4
  has_spe = TRUE
  CommandLines <- MCListLines
  counter_idx_map <- MCcounter_idx_map
  SampleFrames <- MCSampleFrames
  MaxFrames = 2
  Profiles <- MCProfiles
  Symbols <- MCSymbols
  MaxFaults = 1
INVARIANT ListedCanBeAsked
CHECK_DEADLOCK FALSE
