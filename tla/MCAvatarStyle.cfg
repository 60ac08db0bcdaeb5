SPECIFICATION AvatarSceneSpec
CONSTANTS
    Characters = {1, 2}
    Corners = {"right bottom", "left top"}
    MaxAvatarEvent = 2
PROPERTIES
    StyleSurvivesRestart
CHECK_DEADLOCK FALSE
