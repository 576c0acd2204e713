SPECIFICATION FairSpec
CONSTANTS
  Site <- PageOf
  Frame <- DashboardLayout
  Matches <- KeyReaches
INVARIANTS TypeOK RefreshedIsShown OwnWritesShown SaysTruly
PROPERTIES StaysPut RefreshCompletes ButtonsFreed
