SPECIFICATION WorkspaceSpec
CONSTANTS
  MaxSession = 2
  MaxSend = 2
  MaxBody = 3
  Scripts <- MCScripts
  PageSize = 2
  Before = 3
  ChatStories <- MCChatStories
  Name = {"ana"}
  TextLength = 2
  MaxThreads = 4
  CommentStories <- MCCommentStories
  Root = "root"
  FirstTree <- MCFirstTree
  MainDoc = "d"
  NewIds = {"n1", "n2", "n3"}
  TempIds = {"t1", "t2"}
  Names = {1, 2, 3}
  FileStories <- MCFileStories
INVARIANT PanelsTrue
PROPERTIES InputKept DiscussionKept PanelsSettle
CHECK_DEADLOCK FALSE
