CONSTANTS Dirs = {"gen", "override"}
          MayMiss <- Override
          MaxEdits = 2
SPECIFICATION Spec
PROPERTY FlagTaken
CHECK_DEADLOCK FALSE
