SPECIFICATION WiringSpec
CONSTANTS
    Callbacks = {"state_change_cb", "outside_write_cb", "inside_write_cb",
                 "network_config_ipv4_cb", "nudge_time_cb", "event_cb",
                 "server_config_cb", "expresslane_cb", "expresslane_metrics_cb",
                 "expresslane_state_change_cb"}
    Versions = {1, 2}
    Contexts = {1, 2}
    MaxSettings = 4
INVARIANT OneListener
